---- MODULE Spec2Model ----
(***************************************************************************)
(* State-machine model of the sans-I/O HTTP/2 frame codec H2Codec          *)
(* (src/src/h2_codec.rs).                                                  *)
(*                                                                         *)
(* A Vec<u8> is represented by its length n and its run-length encoding r, *)
(* a sequence of runs <<byte, count>> with count >= 1 and no two           *)
(* neighbouring runs holding the same byte.  The representation is         *)
(* canonical (two vectors are equal iff their representations are equal),  *)
(* and it lets the model hold the 256 KiB header blocks that               *)
(* MAX_HEADER_BLOCK_SIZE is about.                                         *)
(***************************************************************************)
EXTENDS Integers, Sequences, FiniteSets, TLC

\* --------------------------------------------------------------------------
\* Vec<u8>
\* --------------------------------------------------------------------------

\* Vec::new()
VecNew == [n |-> 0, r |-> <<>>]

\* vec![b; n]
Rep(b, n) == IF n = 0 THEN VecNew ELSE [n |-> n, r |-> << <<b, n>> >>]

\* Vec::len
vlen(v) == v.n

\* Vec::extend_from_slice
extend(a, b) ==
    IF a.n = 0 THEN b
    ELSE IF b.n = 0 THEN a
    ELSE [n |-> a.n + b.n,
          r |-> IF a.r[Len(a.r)][1] = b.r[1][1]
                THEN SubSeq(a.r, 1, Len(a.r) - 1)
                       \o << <<b.r[1][1], a.r[Len(a.r)][2] + b.r[1][2]>> >>
                       \o Tail(b.r)
                ELSE a.r \o b.r]

\* the runs that hold the first k bytes, 0 < k < length
RECURSIVE take_runs(_, _)
take_runs(r, k) ==
    IF r[1][2] >= k THEN << <<r[1][1], k>> >>
    ELSE <<r[1]>> \o take_runs(Tail(r), k - r[1][2])

\* the runs that hold the bytes from offset k on, 0 < k < length
RECURSIVE drop_runs(_, _)
drop_runs(r, k) ==
    IF r[1][2] > k THEN << <<r[1][1], r[1][2] - k>> >> \o Tail(r)
    ELSE IF r[1][2] = k THEN Tail(r)
    ELSE drop_runs(Tail(r), k - r[1][2])

\* Vec::truncate(k): the first k bytes (the whole vector when k >= len)
truncate(v, k) ==
    IF k >= v.n THEN v
    ELSE IF k <= 0 THEN VecNew
    ELSE [n |-> k, r |-> take_runs(v.r, k)]

\* Vec::drain(..k) / Vec::split_off(k): the bytes from offset k on, k <= len
drain(v, k) ==
    IF k <= 0 THEN v
    ELSE IF k >= v.n THEN VecNew
    ELSE [n |-> v.n - k, r |-> drop_runs(v.r, k)]

\* v[i], 0-based like the source
RECURSIVE at_runs(_, _)
at_runs(r, i) == IF i < r[1][2] THEN r[1][1] ELSE at_runs(Tail(r), i - r[1][2])

at(v, i) == at_runs(v.r, i)

\* a byte literal such as [0, 0, 5, 0, 1]
RECURSIVE bytes(_)
bytes(s) == IF s = <<>> THEN VecNew ELSE extend(Rep(s[1], 1), bytes(Tail(s)))

\* u32::to_be_bytes / the (x >> 24) as u8, ... idiom of the builders.  A u32 is
\* held as its 32-bit pattern: a value with bit 31 set is the negative integer
\* with the same bits (0x80000005 is -2147483643); \div rounds down and % is
\* never negative, so the four bytes are those of the pattern.
be32(x) == bytes(<< (x \div 16777216) % 256, (x \div 65536) % 256,
                    (x \div 256) % 256, x % 256 >>)

\* the 24-bit length field, (length >> 16) as u8, (length >> 8) as u8, length as u8
be24(x) == bytes(<< (x \div 65536) % 256, (x \div 256) % 256, x % 256 >>)

\* u32::from_be_bytes([v[i], v[i+1], v[i+2], v[i+3]])
from_be_bytes(v, i) ==
    at(v, i) * 16777216 + at(v, i + 1) * 65536 + at(v, i + 2) * 256 + at(v, i + 3)

\* u16::from_be_bytes([v[i], v[i+1]])
from_be_bytes16(v, i) == at(v, i) * 256 + at(v, i + 1)

\* x & mask != 0 for a one-bit mask
has_flag(x, mask) == (x \div mask) % 2 = 1

\* mutant: the mask clears the whole top byte, 0x00FFFFFF
from_be_bytes_24(v, i) ==
    at(v, i + 1) * 65536 + at(v, i + 2) * 256 + at(v, i + 3)

\* u32::from_be_bytes([v[i], v[i+1], v[i+2], v[i+3]]) & 0x7FFFFFFF.  The mask is
\* applied to the top byte before the bytes are combined, which gives the same
\* 31-bit value and keeps every intermediate below 2^31.
from_be_bytes_31(v, i) ==
    (at(v, i) % 128) * 16777216 + at(v, i + 1) * 65536 + at(v, i + 2) * 256 + at(v, i + 3)

\* --------------------------------------------------------------------------
\* Protocol constants
\* --------------------------------------------------------------------------

DATA == 0
HEADERS == 1
PRIORITY == 2
RST_STREAM == 3
SETTINGS == 4
PUSH_PROMISE == 5
PING == 6
GOAWAY == 7
WINDOW_UPDATE == 8
CONTINUATION == 9

END_STREAM == 1
END_HEADERS == 4
PADDED == 8
PRIORITY_FLAG == 32

\* mutant: the limit is one byte short
MAX_HEADER_BLOCK_SIZE_short == 256 * 1024 - 1

MAX_HEADER_BLOCK_SIZE == 256 * 1024

\* b"PRI * HTTP/2.0\r\n\r\nSM\r\n\r\n"
CONNECTION_PREFACE ==
    bytes(<<80, 82, 73, 32, 42, 32, 72, 84, 84, 80, 47, 50, 46, 48,
            13, 10, 13, 10, 83, 77, 13, 10, 13, 10>>)

is_h2c_preface(data) ==
    /\ vlen(data) >= vlen(CONNECTION_PREFACE)
    /\ truncate(data, vlen(CONNECTION_PREFACE)) = CONNECTION_PREFACE

\* --------------------------------------------------------------------------
\* Option<T>, Result<T, String>
\* --------------------------------------------------------------------------

None == <<>>
Some(x) == <<x>>

\* Err(format!(msg, args...)): the message template and the values it names
Err(msg, args) ==
    [ok |-> FALSE, panic |-> FALSE, events |-> <<>>, msg |-> msg, args |-> args]
Ok(events) ==
    [ok |-> TRUE, panic |-> FALSE, events |-> events, msg |-> "", args |-> <<>>]

\* panic!(msg): the call does not return; the state is left as it was when the
\* panic was raised
Panic(msg) ==
    [ok |-> FALSE, panic |-> TRUE, events |-> <<>>, msg |-> msg, args |-> <<>>]

\* --------------------------------------------------------------------------
\* H2FrameHeader
\* --------------------------------------------------------------------------

parse(data) ==
    IF vlen(data) < 9 THEN None
    ELSE Some([length     |-> at(data, 0) * 65536 + at(data, 1) * 256 + at(data, 2),
               frame_type |-> at(data, 3),
               flags      |-> at(data, 4),
               stream_id  |-> from_be_bytes_31(data, 5)])

\* mutant: the size of a frame is the size of its payload (of its header, if
\* the payload is empty)
total_size_of_payload(header) == IF header.length = 0 THEN 9 ELSE header.length

total_size(header) == 9 + header.length

is_end_stream(header) == has_flag(header.flags, END_STREAM)

is_end_headers(header) == has_flag(header.flags, END_HEADERS)

\* --------------------------------------------------------------------------
\* H2Event
\* --------------------------------------------------------------------------

Headers(stream_id, header_block, end_stream) ==
    [type |-> "Headers", stream_id |-> stream_id,
     header_block |-> header_block, end_stream |-> end_stream]

Data(stream_id, data, end_stream) ==
    [type |-> "Data", stream_id |-> stream_id, data |-> data, end_stream |-> end_stream]

StreamReset(stream_id, error_code) ==
    [type |-> "StreamReset", stream_id |-> stream_id, error_code |-> error_code]

GoAway(last_stream_id, error_code) ==
    [type |-> "GoAway", last_stream_id |-> last_stream_id, error_code |-> error_code]

Settings(ack, settings) ==
    [type |-> "Settings", ack |-> ack, settings |-> settings]

WindowUpdate(stream_id, increment) ==
    [type |-> "WindowUpdate", stream_id |-> stream_id, increment |-> increment]

Ping(ack, data) ==
    [type |-> "Ping", ack |-> ack, data |-> data]

\* --------------------------------------------------------------------------
\* StreamState and the stream table (HashMap<u32, StreamState>)
\* --------------------------------------------------------------------------

\* StreamState::default()
DefaultStreamState == [headers_complete |-> FALSE, stream_ended |-> FALSE]

\* HashMap::new()
NoStreams == [id \in {} |-> DefaultStreamState]

\* streams.entry(id).or_default()
entry_or_default(streams, id) ==
    [k \in DOMAIN streams \cup {id} |->
        IF k \in DOMAIN streams THEN streams[k] ELSE DefaultStreamState]

\* streams.remove(&id)
remove(streams, id) == [k \in DOMAIN streams \ {id} |-> streams[k]]

\* --------------------------------------------------------------------------
\* H2Codec
\* --------------------------------------------------------------------------

\* H2Codec::new() / H2Codec::default()
new ==
    [buffer                     |-> VecNew,
     streams                    |-> NoStreams,
     preface_received           |-> FALSE,
     pending_headers_stream     |-> None,
     pending_headers_end_stream |-> FALSE,
     pending_header_block       |-> VecNew]

\* The Result of the two payload extractors: Ok(Vec<u8>) or Err(String)
OkVec(v) == [ok |-> TRUE, panic |-> FALSE, vec |-> v, msg |-> ""]
ErrVec(msg) == [ok |-> FALSE, panic |-> FALSE, vec |-> VecNew, msg |-> msg]
\* Vec::drain(..n) with n > len panics
PanicVec(msg) == [ok |-> FALSE, panic |-> TRUE, vec |-> VecNew, msg |-> msg]

\* mutant: the padding stays at the end of the data
extract_data_payload_keeps_padding(header, payload) ==
    IF has_flag(header.flags, PADDED)
    THEN IF vlen(payload) = 0
         THEN ErrVec("PADDED DATA frame with no payload")
         ELSE IF at(payload, 0) >= vlen(payload)
         THEN ErrVec("Invalid padding length in DATA frame")
         ELSE OkVec(drain(payload, 1))
    ELSE OkVec(payload)

extract_data_payload(header, payload) ==
    IF has_flag(header.flags, PADDED)
    THEN IF vlen(payload) = 0
         THEN ErrVec("PADDED DATA frame with no payload")
         ELSE LET pad_length == at(payload, 0) IN
              IF pad_length >= vlen(payload)
              THEN ErrVec("Invalid padding length in DATA frame")
              ELSE OkVec(drain(truncate(payload, vlen(payload) - pad_length), 1))
    ELSE OkVec(payload)

\* mutant: the pad-length byte, the priority fields and the padding are left
\* in the header block
extract_headers_payload_raw(header, payload) == OkVec(payload)

extract_headers_payload(header, payload) ==
    LET padded   == has_flag(header.flags, PADDED)
        priority == has_flag(header.flags, PRIORITY_FLAG)
        pad_length == IF padded /\ vlen(payload) > 0 THEN at(payload, 0) ELSE 0
        offset1  == IF padded THEN 1 ELSE 0
        end      == IF padded THEN vlen(payload) - pad_length ELSE vlen(payload)
        offset   == IF priority THEN offset1 + 5 ELSE offset1
    IN  IF padded /\ vlen(payload) = 0
        THEN ErrVec("PADDED HEADERS frame with no payload")
        ELSE IF padded /\ pad_length >= vlen(payload) - offset1
        THEN ErrVec("Invalid padding length in HEADERS frame")
        ELSE IF priority /\ vlen(payload) - offset1 < 5
        THEN ErrVec("PRIORITY HEADERS frame with insufficient data")
        ELSE IF offset = 0 /\ end = vlen(payload)
        THEN OkVec(payload)
        ELSE IF offset > end
        THEN PanicVec("range end index out of range")
        ELSE OkVec(drain(truncate(payload, end), offset))

\* What parse_frame leaves behind: the codec, and Ok(Some(event)), Ok(None) or
\* Err(String)
FrameOk(c, event) ==
    [codec |-> c, ok |-> TRUE, panic |-> FALSE, event |-> event, msg |-> "", args |-> <<>>]
FrameErr(c, msg, args) ==
    [codec |-> c, ok |-> FALSE, panic |-> FALSE, event |-> None, msg |-> msg, args |-> args]
FramePanic(c, msg) ==
    [codec |-> c, ok |-> FALSE, panic |-> TRUE, event |-> None, msg |-> msg, args |-> <<>>]
\* the ? operator on the extractors' Result
FrameFail(c, r) == IF r.panic THEN FramePanic(c, r.msg) ELSE FrameErr(c, r.msg, <<>>)

\* the SETTINGS entry loop: while pos + 6 <= payload.len() { ... pos += 6 }
RECURSIVE parse_settings(_, _)
parse_settings(payload, pos) ==
    IF pos + 6 <= vlen(payload)
    THEN << <<from_be_bytes16(payload, pos), from_be_bytes(payload, pos + 2)>> >>
            \o parse_settings(payload, pos + 6)
    ELSE <<>>

parse_frame_DATA(c, header, payload) ==
    LET data == extract_data_payload(header, payload)
        streams1 == entry_or_default(c.streams, header.stream_id)
        streams2 == IF is_end_stream(header)
                    THEN [streams1 EXCEPT ![header.stream_id].stream_ended = TRUE]
                    ELSE streams1
    IN  IF ~data.ok THEN FrameFail(c, data)
        ELSE FrameOk([c EXCEPT !.streams = streams2],
                     Some(Data(header.stream_id, data.vec, is_end_stream(header))))

\* mutant: a HEADERS fragment that arrives while an assembly is pending is
\* appended to the pending block
headers_appended_to_pending(c, header, payload) ==
    LET header_block == extract_headers_payload(header, payload)
        streams1 == entry_or_default(c.streams, header.stream_id)
        streams2 == IF is_end_stream(header)
                    THEN [streams1 EXCEPT ![header.stream_id].stream_ended = TRUE]
                    ELSE streams1
    IN  IF ~header_block.ok THEN FrameFail(c, header_block)
        ELSE IF is_end_headers(header)
        THEN FrameOk([c EXCEPT !.streams =
                          [streams2 EXCEPT ![header.stream_id].headers_complete = TRUE]],
                     Some(Headers(header.stream_id, header_block.vec, is_end_stream(header))))
        ELSE IF vlen(header_block.vec) > MAX_HEADER_BLOCK_SIZE
        THEN FrameErr([c EXCEPT !.streams = streams2],
                      "Header block too large ({} bytes, max {})",
                      <<vlen(header_block.vec), MAX_HEADER_BLOCK_SIZE>>)
        ELSE FrameOk([c EXCEPT !.streams = streams2,
                               !.pending_headers_stream = Some(header.stream_id),
                               !.pending_headers_end_stream = is_end_stream(header),
                               !.pending_header_block =
                                   extend(c.pending_header_block, header_block.vec)],
                     None)

\* mutant: HEADERS writes both flags of the entry from the flags of the frame
headers_overwrite_flags(c, header, payload) ==
    LET header_block == extract_headers_payload(header, payload)
        streams1 == entry_or_default(c.streams, header.stream_id)
        streams2 == [streams1 EXCEPT ![header.stream_id] =
                        [headers_complete |-> is_end_headers(header),
                         stream_ended |-> is_end_stream(header)]]
    IN  IF ~header_block.ok THEN FrameFail(c, header_block)
        ELSE IF is_end_headers(header)
        THEN FrameOk([c EXCEPT !.streams = streams2],
                     Some(Headers(header.stream_id, header_block.vec, is_end_stream(header))))
        ELSE IF vlen(header_block.vec) > MAX_HEADER_BLOCK_SIZE
        THEN FrameErr([c EXCEPT !.streams = streams2],
                      "Header block too large ({} bytes, max {})",
                      <<vlen(header_block.vec), MAX_HEADER_BLOCK_SIZE>>)
        ELSE FrameOk([c EXCEPT !.streams = streams2,
                               !.pending_headers_stream = Some(header.stream_id),
                               !.pending_headers_end_stream = is_end_stream(header),
                               !.pending_header_block = header_block.vec],
                     None)

parse_frame_HEADERS(c, header, payload) ==
    LET header_block == extract_headers_payload(header, payload)
        streams1 == entry_or_default(c.streams, header.stream_id)
        streams2 == IF is_end_stream(header)
                    THEN [streams1 EXCEPT ![header.stream_id].stream_ended = TRUE]
                    ELSE streams1
    IN  IF ~header_block.ok THEN FrameFail(c, header_block)
        ELSE IF is_end_headers(header)
        THEN FrameOk([c EXCEPT !.streams =
                          [streams2 EXCEPT ![header.stream_id].headers_complete = TRUE]],
                     Some(Headers(header.stream_id, header_block.vec, is_end_stream(header))))
        ELSE IF vlen(header_block.vec) > MAX_HEADER_BLOCK_SIZE
        THEN FrameErr([c EXCEPT !.streams = streams2],
                      "Header block too large ({} bytes, max {})",
                      <<vlen(header_block.vec), MAX_HEADER_BLOCK_SIZE>>)
        ELSE FrameOk([c EXCEPT !.streams = streams2,
                               !.pending_headers_stream = Some(header.stream_id),
                               !.pending_headers_end_stream = is_end_stream(header),
                               !.pending_header_block = header_block.vec],
                     None)

\* mutant: the fragment replaces the pending block instead of being appended
extend_from_slice_replaces(block, payload) == payload

\* self.pending_header_block.extend_from_slice(&payload)
extend_from_slice(block, payload) == extend(block, payload)

\* mutant: the size guard looks at the fragment alone
new_size_of_fragment(c, payload) == vlen(payload)

\* let new_size = self.pending_header_block.len() + payload.len()
new_size(c, payload) == vlen(c.pending_header_block) + vlen(payload)

\* mutant: the END_STREAM flag of the CONTINUATION frame itself is reported
end_stream_of_frame(c, header) == is_end_stream(header)

\* let end_stream = self.pending_headers_end_stream
end_stream(c, header) == c.pending_headers_end_stream

\* the CONTINUATION arm once the frame is known to continue the pending stream:
\* the size guard, the append, and the event on END_HEADERS
continuation_append(c, header, payload) ==
    LET full_block == extend_from_slice(c.pending_header_block, payload)
        streams1 == entry_or_default(c.streams, header.stream_id)
    IN  IF new_size(c, payload) > MAX_HEADER_BLOCK_SIZE
        THEN FrameErr([c EXCEPT !.pending_headers_stream = None,
                                !.pending_header_block = VecNew],
                      "Header block too large ({} bytes, max {})",
                      <<new_size(c, payload), MAX_HEADER_BLOCK_SIZE>>)
        ELSE IF is_end_headers(header)
        THEN FrameOk([c EXCEPT !.streams =
                          [streams1 EXCEPT ![header.stream_id].headers_complete = TRUE],
                               !.pending_header_block = VecNew,
                               !.pending_headers_stream = None,
                               !.pending_headers_end_stream = FALSE],
                     Some(Headers(header.stream_id, full_block, end_stream(c, header))))
        ELSE FrameOk([c EXCEPT !.pending_header_block = full_block], None)

\* mutant: a CONTINUATION frame on another stream is refused and the pending
\* assembly is abandoned
continuation_mismatch_abandons(c, header, payload, pending_stream) ==
    IF pending_stream # header.stream_id
    THEN FrameErr([c EXCEPT !.pending_headers_stream = None,
                            !.pending_headers_end_stream = FALSE,
                            !.pending_header_block = VecNew],
                  "CONTINUATION for stream {} but pending headers on stream {}",
                  <<header.stream_id, pending_stream>>)
    ELSE continuation_append(c, header, payload)

\* mutant: the stream of the CONTINUATION frame is not compared
continuation_any_stream(c, header, payload, pending_stream) ==
    continuation_append(c, header, payload)

\* the body of `if let Some(pending_stream) = self.pending_headers_stream`
continuation_pending(c, header, payload, pending_stream) ==
    IF pending_stream # header.stream_id
    THEN FrameErr(c, "CONTINUATION for stream {} but pending headers on stream {}",
                  <<header.stream_id, pending_stream>>)
    ELSE continuation_append(c, header, payload)

\* mutant: a CONTINUATION frame with nothing pending is passed over in silence
continuation_unchecked(c, header, payload) ==
    IF c.pending_headers_stream # None
    THEN continuation_pending(c, header, payload, c.pending_headers_stream[1])
    ELSE FrameOk(c, None)

parse_frame_CONTINUATION(c, header, payload) ==
    IF c.pending_headers_stream # None
    THEN continuation_pending(c, header, payload, c.pending_headers_stream[1])
    ELSE FrameErr(c, "Unexpected CONTINUATION frame for stream {}", <<header.stream_id>>)

\* mutant: RST_STREAM for the stream whose header block is being assembled
\* abandons the assembly
rst_stream_drops_pending(c, header, payload) ==
    IF vlen(payload) < 4 THEN FrameErr(c, "RST_STREAM frame too short", <<>>)
    ELSE FrameOk([c EXCEPT !.streams = remove(c.streams, header.stream_id),
                           !.pending_headers_stream =
                               IF c.pending_headers_stream = Some(header.stream_id)
                               THEN None ELSE c.pending_headers_stream,
                           !.pending_header_block =
                               IF c.pending_headers_stream = Some(header.stream_id)
                               THEN VecNew ELSE c.pending_header_block],
                 Some(StreamReset(header.stream_id, from_be_bytes(payload, 0))))

\* mutant: RST_STREAM reports the reset but keeps the stream's entry
rst_stream_keeps_state(c, header, payload) ==
    IF vlen(payload) < 4 THEN FrameErr(c, "RST_STREAM frame too short", <<>>)
    ELSE FrameOk(c, Some(StreamReset(header.stream_id, from_be_bytes(payload, 0))))

parse_frame_RST_STREAM(c, header, payload) ==
    IF vlen(payload) < 4 THEN FrameErr(c, "RST_STREAM frame too short", <<>>)
    ELSE FrameOk([c EXCEPT !.streams = remove(c.streams, header.stream_id)],
                 Some(StreamReset(header.stream_id, from_be_bytes(payload, 0))))

\* mutant: the entries of a SETTINGS frame with the ACK flag are parsed too
settings_ack_parsed(c, header, payload) ==
    LET ack == has_flag(header.flags, 1)
        settings == IF vlen(payload) >= 6 THEN parse_settings(payload, 0) ELSE <<>>
    IN  FrameOk(c, Some(Settings(ack, settings)))

parse_frame_SETTINGS(c, header, payload) ==
    LET ack == has_flag(header.flags, 1)
        settings == IF ~ack /\ vlen(payload) >= 6 THEN parse_settings(payload, 0) ELSE <<>>
    IN  FrameOk(c, Some(Settings(ack, settings)))

\* mutant: GOAWAY empties the stream table
goaway_clears_streams(c, header, payload) ==
    IF vlen(payload) < 8 THEN FrameErr(c, "GOAWAY frame too short", <<>>)
    ELSE FrameOk([c EXCEPT !.streams = NoStreams],
                 Some(GoAway(from_be_bytes_31(payload, 0), from_be_bytes(payload, 4))))

parse_frame_GOAWAY(c, header, payload) ==
    IF vlen(payload) < 8 THEN FrameErr(c, "GOAWAY frame too short", <<>>)
    ELSE FrameOk(c, Some(GoAway(from_be_bytes_31(payload, 0), from_be_bytes(payload, 4))))

\* mutant: a WINDOW_UPDATE frame that is too short is passed over in silence
window_update_short_ignored(c, header, payload) ==
    IF vlen(payload) < 4 THEN FrameOk(c, None)
    ELSE FrameOk(c, Some(WindowUpdate(header.stream_id, from_be_bytes_31(payload, 0))))

parse_frame_WINDOW_UPDATE(c, header, payload) ==
    IF vlen(payload) < 4 THEN FrameErr(c, "WINDOW_UPDATE frame too short", <<>>)
    ELSE FrameOk(c, Some(WindowUpdate(header.stream_id, from_be_bytes_31(payload, 0))))

parse_frame_PING(c, header, payload) ==
    IF vlen(payload) < 8 THEN FrameErr(c, "PING frame too short", <<>>)
    ELSE FrameOk(c, Some(Ping(has_flag(header.flags, 1), truncate(payload, 8))))

\* mutant: a frame of a type the codec does not know is refused
parse_frame_unknown_rejected(c, header, payload) ==
    CASE header.frame_type = DATA          -> parse_frame_DATA(c, header, payload)
      [] header.frame_type = HEADERS       -> parse_frame_HEADERS(c, header, payload)
      [] header.frame_type = CONTINUATION  -> parse_frame_CONTINUATION(c, header, payload)
      [] header.frame_type = RST_STREAM    -> parse_frame_RST_STREAM(c, header, payload)
      [] header.frame_type = SETTINGS      -> parse_frame_SETTINGS(c, header, payload)
      [] header.frame_type = GOAWAY        -> parse_frame_GOAWAY(c, header, payload)
      [] header.frame_type = WINDOW_UPDATE -> parse_frame_WINDOW_UPDATE(c, header, payload)
      [] header.frame_type = PING          -> parse_frame_PING(c, header, payload)
      [] header.frame_type = PRIORITY      -> FrameOk(c, None)
      [] header.frame_type = PUSH_PROMISE  -> FrameOk(c, None)
      [] OTHER -> FrameErr(c, "Unknown frame type {}", <<header.frame_type>>)

\* H2Codec::parse_frame: the match on header.frame_type
parse_frame(c, header, payload) ==
    CASE header.frame_type = DATA          -> parse_frame_DATA(c, header, payload)
      [] header.frame_type = HEADERS       -> parse_frame_HEADERS(c, header, payload)
      [] header.frame_type = CONTINUATION  -> parse_frame_CONTINUATION(c, header, payload)
      [] header.frame_type = RST_STREAM    -> parse_frame_RST_STREAM(c, header, payload)
      [] header.frame_type = SETTINGS      -> parse_frame_SETTINGS(c, header, payload)
      [] header.frame_type = GOAWAY        -> parse_frame_GOAWAY(c, header, payload)
      [] header.frame_type = WINDOW_UPDATE -> parse_frame_WINDOW_UPDATE(c, header, payload)
      [] header.frame_type = PING          -> parse_frame_PING(c, header, payload)
      [] header.frame_type = PRIORITY      -> FrameOk(c, None)
      [] header.frame_type = PUSH_PROMISE  -> FrameOk(c, None)
      [] OTHER                             -> FrameOk(c, None)

\* mutant: the preface is stripped whenever it is at the head of the buffer
check_preface_again(c) ==
    IF /\ vlen(c.buffer) >= vlen(CONNECTION_PREFACE)
       /\ truncate(c.buffer, vlen(CONNECTION_PREFACE)) = CONNECTION_PREFACE
    THEN [c EXCEPT !.buffer = drain(c.buffer, vlen(CONNECTION_PREFACE)),
                   !.preface_received = TRUE]
    ELSE c

\* mutant: a call that finds fewer than 24 bytes buffered gives up on the
\* preface for good
check_preface_once(c) ==
    IF ~c.preface_received /\ vlen(c.buffer) < vlen(CONNECTION_PREFACE)
    THEN [c EXCEPT !.preface_received = TRUE]
    ELSE IF /\ ~c.preface_received
            /\ truncate(c.buffer, vlen(CONNECTION_PREFACE)) = CONNECTION_PREFACE
    THEN [c EXCEPT !.buffer = drain(c.buffer, vlen(CONNECTION_PREFACE)),
                   !.preface_received = TRUE]
    ELSE c

\* the preface check at the head of process()
check_preface(c) ==
    IF /\ ~c.preface_received
       /\ vlen(c.buffer) >= vlen(CONNECTION_PREFACE)
       /\ truncate(c.buffer, vlen(CONNECTION_PREFACE)) = CONNECTION_PREFACE
    THEN [c EXCEPT !.buffer = drain(c.buffer, vlen(CONNECTION_PREFACE)),
                   !.preface_received = TRUE]
    ELSE c

\* the frame loop of process(): the codec and the Result when the loop is left
RECURSIVE frame_loop(_, _)
frame_loop(c, events) ==
    IF vlen(c.buffer) < 9 THEN [codec |-> c, result |-> Ok(events)]
    ELSE LET h == parse(c.buffer) IN
         IF h = None THEN [codec |-> c, result |-> Ok(events)]
         ELSE LET header == h[1]
                  total == total_size(header)
                  remainder == drain(c.buffer, total)
                  frame_data == truncate(c.buffer, total)
                  payload == IF vlen(frame_data) > 9 THEN drain(frame_data, 9) ELSE VecNew
                  r == parse_frame([c EXCEPT !.buffer = remainder], header, payload)
              IN  IF vlen(c.buffer) < total THEN [codec |-> c, result |-> Ok(events)]
                  ELSE IF r.panic THEN [codec |-> r.codec, result |-> Panic(r.msg)]
                  ELSE IF ~r.ok THEN [codec |-> r.codec, result |-> Err(r.msg, r.args)]
                  ELSE frame_loop(r.codec, events \o r.event)

\* the iterations of the frame loop: the length of the buffer at the head of
\* each iteration, the last entry being the length with which the loop is left
\* (by a break, or by the ? of a frame that fails)
RECURSIVE buffer_lens(_)
buffer_lens(c) ==
    IF vlen(c.buffer) < 9 THEN <<vlen(c.buffer)>>
    ELSE LET h == parse(c.buffer) IN
         IF h = None THEN <<vlen(c.buffer)>>
         ELSE LET header == h[1]
                  total == total_size(header)
                  remainder == drain(c.buffer, total)
                  frame_data == truncate(c.buffer, total)
                  payload == IF vlen(frame_data) > 9 THEN drain(frame_data, 9) ELSE VecNew
                  r == parse_frame([c EXCEPT !.buffer = remainder], header, payload)
              IN  IF vlen(c.buffer) < total THEN <<vlen(c.buffer)>>
                  ELSE IF ~r.ok THEN <<vlen(c.buffer), vlen(r.codec.buffer)>>
                  ELSE <<vlen(c.buffer)>> \o buffer_lens(r.codec)

\* mutant: the bytes buffered by earlier calls are dropped instead of extended
process_forgets_buffer(c, data) ==
    frame_loop(check_preface([c EXCEPT !.buffer = data]), <<>>)

\* mutant: after a failing frame the frames behind it are dispatched all the
\* same, and the error is returned afterwards
process_dispatches_after_error(c, data) ==
    LET r == frame_loop(check_preface([c EXCEPT !.buffer = extend(c.buffer, data)]), <<>>)
    IN  IF r.result.ok THEN r
        ELSE [r EXCEPT !.codec = frame_loop(r.codec, <<>>).codec]

\* mutant: the events are returned newest first
process_newest_first(c, data) ==
    LET r == frame_loop(check_preface([c EXCEPT !.buffer = extend(c.buffer, data)]), <<>>)
        n == Len(r.result.events)
    IN  [r EXCEPT !.result.events = [i \in 1..n |-> r.result.events[n + 1 - i]]]

\* mutant: what is left of the buffer when the frame loop ends is thrown away
process_drops_partial(c, data) ==
    LET r == frame_loop(check_preface([c EXCEPT !.buffer = extend(c.buffer, data)]), <<>>)
    IN  [r EXCEPT !.codec.buffer = VecNew]

\* mutant: a call that fails throws away what is left in the buffer
process_clears_buffer_on_error(c, data) ==
    LET r == frame_loop(check_preface([c EXCEPT !.buffer = extend(c.buffer, data)]), <<>>)
    IN  IF r.result.ok THEN r ELSE [r EXCEPT !.codec.buffer = VecNew]

\* H2Codec::process
process(c, data) ==
    frame_loop(check_preface([c EXCEPT !.buffer = extend(c.buffer, data)]), <<>>)

\* mutant: remove_stream() drops the entries of all streams
remove_stream_clears_table(c, stream_id) == [c EXCEPT !.streams = NoStreams]

\* H2Codec::remove_stream
remove_stream(c, stream_id) == [c EXCEPT !.streams = remove(c.streams, stream_id)]

\* mutant: reset() leaves the pending header block assembly in place
reset_keeps_pending(c) ==
    [c EXCEPT !.buffer = VecNew,
              !.streams = NoStreams,
              !.preface_received = FALSE]

\* H2Codec::reset
reset(c) ==
    [c EXCEPT !.buffer = VecNew,
              !.streams = NoStreams,
              !.preface_received = FALSE,
              !.pending_headers_stream = None,
              !.pending_headers_end_stream = FALSE,
              !.pending_header_block = VecNew]

\* x & 0x7FFFFFFF on the 32-bit pattern of a u32
and_0x7FFFFFFF(x) == IF x < 0 THEN (x + 2147483647) + 1 ELSE x

\* H2Codec::create_rst_stream
create_rst_stream(stream_id, error_code) ==
    extend(extend(bytes(<<0, 0, 4, RST_STREAM, 0>>), be32(stream_id)), be32(error_code))

\* mutant: the two fields of the GOAWAY payload are written in the other order
create_goaway_swapped(last_stream_id, error_code) ==
    extend(extend(extend(bytes(<<0, 0, 8, GOAWAY, 0>>), be32(0)),
                  be32(error_code)),
           be32(last_stream_id))

\* H2Codec::create_goaway
create_goaway(last_stream_id, error_code) ==
    extend(extend(extend(bytes(<<0, 0, 8, GOAWAY, 0>>), be32(0)),
                  be32(last_stream_id)),
           be32(error_code))

\* H2Codec::create_settings_ack
create_settings_ack == bytes(<<0, 0, 0, SETTINGS, 1, 0, 0, 0, 0>>)

\* H2Codec::create_settings
create_settings == bytes(<<0, 0, 0, SETTINGS, 0, 0, 0, 0, 0>>)

\* H2Codec::create_settings_with_window
create_settings_with_window(initial_window_size) ==
    extend(extend(bytes(<<0, 0, 6, SETTINGS, 0, 0, 0, 0, 0>>), bytes(<<0, 4>>)),
           be32(initial_window_size))

\* H2Codec::create_ping_ack
create_ping_ack(data) == extend(bytes(<<0, 0, 8, PING, 1, 0, 0, 0, 0>>), data)

\* H2Codec::create_window_update
create_window_update(stream_id, increment) ==
    extend(extend(bytes(<<0, 0, 4, WINDOW_UPDATE, 0>>), be32(stream_id)),
           be32(and_0x7FFFFFFF(increment)))

\* H2Codec::create_continuation_frame
create_continuation_frame(stream_id, payload, end_headers) ==
    LET length == vlen(payload)
        flags_byte == IF end_headers THEN END_HEADERS ELSE 0
    IN  extend(extend(extend(be24(length), bytes(<<CONTINUATION, flags_byte>>)),
                      be32(stream_id)),
               payload)

\* --------------------------------------------------------------------------
\* The peer and the transport
\* --------------------------------------------------------------------------

\* Bounds of the model
MaxFrames == 3        \* items (frames or prefaces) the peer sends in a behaviour
MaxRead == 2          \* a read takes at most MaxRead bytes, or all there is
CallsCap == 2         \* process() calls are counted up to CallsCap
SplitWindow == 64     \* a read leaves fewer than SplitWindow bytes in flight

StreamIds == {1, 3}

\* A frame as the tests write it: 3-byte length, type, flags, 4-byte stream id,
\* payload
Frame(type, flags, stream_id, payload) ==
    [type |-> type, flags |-> flags, stream_id |-> stream_id, payload |-> payload]

frame_bytes(f) ==
    extend(extend(extend(be24(vlen(f.payload)), bytes(<<f.type, f.flags>>)),
                  be32(f.stream_id)),
           f.payload)

\* The connection preface as an item of the peer's output
PrefaceItem == Frame(-1, 0, 0, VecNew)

\* The output of a frame builder as an item of the peer's output
Built(frame) == Frame(-2, 0, 0, frame)

item_bytes(f) ==
    IF f = PrefaceItem THEN CONNECTION_PREFACE
    ELSE IF f.type = -2 THEN f.payload
    ELSE frame_bytes(f)

\* A call of a frame builder: the builder, and the arguments it takes of
\* stream id (or last stream id), value (error code, window size, increment),
\* bytes (ping data, header block fragment) and end_headers
Call(builder, stream_id, value, data, end_headers) ==
    [builder |-> builder, stream_id |-> stream_id, value |-> value,
     data |-> data, end_headers |-> end_headers]

build(call) ==
    CASE call.builder = "create_rst_stream" ->
            create_rst_stream(call.stream_id, call.value)
      [] call.builder = "create_goaway" ->
            create_goaway(call.stream_id, call.value)
      [] call.builder = "create_settings_ack" -> create_settings_ack
      [] call.builder = "create_settings" -> create_settings
      [] call.builder = "create_settings_with_window" ->
            create_settings_with_window(call.value)
      [] call.builder = "create_ping_ack" -> create_ping_ack(call.data)
      [] call.builder = "create_window_update" ->
            create_window_update(call.stream_id, call.value)
      [] call.builder = "create_continuation_frame" ->
            create_continuation_frame(call.stream_id, call.data, call.end_headers)

\* The builder calls of the peer that answers with built frames; 0x80000003
\* is -2147483645 as a 32-bit pattern
BuilderCalls ==
    { Call("create_rst_stream", 1, 13, VecNew, FALSE),
      Call("create_rst_stream", -2147483645, 8, VecNew, FALSE),
      Call("create_goaway", 2147483647, 2, VecNew, FALSE),
      Call("create_settings_ack", 0, 0, VecNew, FALSE),
      Call("create_settings", 0, 0, VecNew, FALSE),
      Call("create_settings_with_window", 0, 1048576, VecNew, FALSE),
      Call("create_ping_ack", 0, 0, bytes(<<1, 2, 3, 4, 5, 6, 7, 8>>), FALSE),
      Call("create_window_update", 7, 32768, VecNew, FALSE),
      Call("create_continuation_frame", 1, 0, bytes(<<134>>), TRUE),
      Call("create_continuation_frame", 1, 0, VecNew, FALSE),
      Call("create_continuation_frame", 1, 0, Rep(65, 16777216), TRUE) }

RECURSIVE script_bytes(_)
script_bytes(fs) ==
    IF fs = <<>> THEN VecNew ELSE extend(item_bytes(fs[1]), script_bytes(Tail(fs)))

\* the frame each of these calls returns
BuiltFrames == [call \in BuilderCalls |-> build(call)]

\* What each kind of peer sends
Repertoire(p) ==
    CASE p = "assembly" ->
            { Frame(HEADERS, 0, 1, bytes(<<130, 134>>)),
              Frame(CONTINUATION, 0, 1, bytes(<<65>>)),
              Frame(CONTINUATION, END_HEADERS + END_STREAM, 1, bytes(<<138>>)),
              Frame(CONTINUATION, END_HEADERS, 3, VecNew),
              Frame(DATA, END_STREAM, 1, bytes(<<100>>)) }
      [] p = "endstream" ->
            { Frame(HEADERS, 0, 1, bytes(<<130, 134>>)),
              Frame(HEADERS, END_STREAM, 1, bytes(<<132>>)),
              Frame(CONTINUATION, END_HEADERS + END_STREAM, 1, bytes(<<138>>)),
              Frame(CONTINUATION, END_HEADERS, 1, bytes(<<139>>)),
              Frame(DATA, END_STREAM, 1, bytes(<<100>>)) }
      [] p = "preface" ->
            { PrefaceItem,
              Frame(SETTINGS, 1, 0, VecNew),
              Frame(DATA, END_STREAM, 1, bytes(<<104, 105>>)),
              Frame(HEADERS, END_HEADERS, 3, bytes(<<136>>)) }
      [] p = "restart" ->
            { PrefaceItem,
              Frame(HEADERS, 0, 1, bytes(<<130>>)),
              Frame(CONTINUATION, END_HEADERS, 1, bytes(<<134>>)) }
      [] p = "streams" ->
            { Frame(HEADERS, END_HEADERS, 3, bytes(<<130>>)),
              Frame(HEADERS, 0, 1, bytes(<<132>>)),
              Frame(RST_STREAM, 0, 1, bytes(<<0, 0, 0, 13>>)),
              Frame(RST_STREAM, 0, 3, bytes(<<0, 0, 0, 8, 9>>)),
              Frame(CONTINUATION, END_HEADERS, 1, bytes(<<134>>)) }
      [] p = "priority" ->
            { Frame(HEADERS, PRIORITY_FLAG + END_HEADERS, 1, bytes(<<0, 0, 0, 0, 16, 130>>)),
              Frame(HEADERS, PRIORITY_FLAG + END_HEADERS, 1, bytes(<<0, 0, 0, 0>>)),
              Frame(HEADERS, PADDED + PRIORITY_FLAG + END_HEADERS + END_STREAM, 3,
                    bytes(<<1, 0, 0, 0, 0, 16, 130, 0>>)),
              Frame(HEADERS, PADDED + PRIORITY_FLAG + END_HEADERS, 3,
                    bytes(<<1, 0, 0, 0, 0, 0>>)) }
      [] p = "padding" ->
            { Frame(DATA, 0, 1, VecNew),
              Frame(DATA, PADDED + END_STREAM, 1, bytes(<<2, 104, 105, 0, 0>>)),
              Frame(DATA, PADDED, 3, VecNew),
              Frame(DATA, PADDED, 3, bytes(<<3, 7, 0, 0>>)),
              Frame(DATA, PADDED, 3, bytes(<<4, 7, 0, 0>>)) }
      [] p = "short" ->
            { Frame(RST_STREAM, 0, 1, bytes(<<0, 0, 8>>)),
              Frame(RST_STREAM, 0, 1, bytes(<<0, 0, 0, 8>>)),
              Frame(WINDOW_UPDATE, 0, 0, bytes(<<0, 0, 1>>)),
              Frame(WINDOW_UPDATE, 0, 0, bytes(<<0, 0, 1, 0>>)),
              Frame(GOAWAY, 0, 0, bytes(<<0, 0, 0, 3, 0, 0, 0>>)),
              Frame(GOAWAY, 0, 0, bytes(<<0, 0, 0, 3, 0, 0, 0, 2>>)),
              Frame(PING, 0, 0, bytes(<<1, 2, 3, 4, 5, 6, 7>>)),
              Frame(PING, 1, 0, bytes(<<1, 2, 3, 4, 5, 6, 7, 8>>)) }
      [] p = "limit" ->
            { Frame(HEADERS, 0, 1, Rep(130, MAX_HEADER_BLOCK_SIZE)),
              Frame(HEADERS, END_STREAM, 1, Rep(130, MAX_HEADER_BLOCK_SIZE - 1)),
              Frame(HEADERS, 0, 3, Rep(130, MAX_HEADER_BLOCK_SIZE + 1)),
              Frame(HEADERS, PADDED, 3,
                    extend(extend(bytes(<<1>>), Rep(130, MAX_HEADER_BLOCK_SIZE)),
                           bytes(<<0>>))),
              Frame(CONTINUATION, 0, 1, Rep(65, 1)),
              Frame(CONTINUATION, END_HEADERS, 1, VecNew),
              Frame(CONTINUATION, END_HEADERS, 1, Rep(66, 2)) }
      [] p = "ignored" ->
            { Frame(HEADERS, 0, 1, bytes(<<130>>)),
              Frame(CONTINUATION, END_HEADERS, 1, bytes(<<134>>)),
              Frame(PRIORITY, 0, 3, bytes(<<0, 0, 0, 1, 16>>)),
              Frame(PUSH_PROMISE, END_HEADERS, 1, bytes(<<0, 0, 0, 2, 130>>)),
              Frame(255, END_STREAM + END_HEADERS, 3, bytes(<<1, 2, 3>>)) }
      [] p = "control" ->
            { Frame(HEADERS, END_HEADERS + END_STREAM, 1, bytes(<<130>>)),
              Frame(RST_STREAM, 0, 1, bytes(<<0, 0, 0, 8>>)),
              Frame(GOAWAY, 0, 0, bytes(<<0, 0, 0, 1, 0, 0, 0, 0>>)),
              Frame(SETTINGS, 0, 0, bytes(<<0, 3, 0, 0, 0, 100>>)),
              Frame(PING, 0, 0, bytes(<<1, 2, 3, 4, 5, 6, 7, 8>>)),
              Frame(WINDOW_UPDATE, 0, 1, bytes(<<0, 0, 1, 0>>)) }
      [] p = "reserved" ->
            { \* stream id 0x80000005
              Frame(DATA, END_STREAM, -2147483643, bytes(<<100>>)),
              \* stream id 0xFF000003
              Frame(HEADERS, END_HEADERS, -16777213, bytes(<<130>>)),
              \* stream id 0x80000005, increment 0x80010000
              Frame(WINDOW_UPDATE, 0, -2147483643, bytes(<<128, 1, 0, 0>>)),
              \* increment 0x7FFFFFFF
              Frame(WINDOW_UPDATE, 0, 3, bytes(<<127, 255, 255, 255>>)),
              \* last stream id 0xFF000007
              Frame(GOAWAY, 0, 0, bytes(<<255, 0, 0, 7, 0, 0, 0, 2>>)),
              \* stream id 0x80000005
              Frame(RST_STREAM, 0, -2147483643, bytes(<<0, 0, 0, 8>>)) }
      [] p = "settings" ->
            { Frame(SETTINGS, 1, 0, bytes(<<0, 4, 0, 1, 0, 0>>)),
              Frame(SETTINGS, 0, 0, VecNew),
              Frame(SETTINGS, 0, 0, bytes(<<0, 4, 0, 1, 0>>)),
              Frame(SETTINGS, 0, 0, bytes(<<0, 4, 0, 1, 0, 0>>)),
              \* MAX_CONCURRENT_STREAMS = 100, the unknown id 0xff01 = 7, and
              \* two bytes of a third entry
              Frame(SETTINGS, 0, 0,
                    bytes(<<0, 3, 0, 0, 0, 100, 255, 1, 0, 0, 0, 7, 0, 4>>)) }
      [] p = "builders" ->
            { Built(BuiltFrames[call]) : call \in BuilderCalls }
              \cup { PrefaceItem, Frame(HEADERS, 0, 1, bytes(<<130>>)) }
      [] p = "replace" ->
            { Frame(HEADERS, 0, 1, bytes(<<130, 134>>)),
              Frame(HEADERS, END_STREAM, 3, bytes(<<132>>)),
              Frame(CONTINUATION, END_HEADERS, 1, bytes(<<138>>)),
              Frame(CONTINUATION, END_HEADERS, 3, bytes(<<139>>)) }
      [] p = "interleave" ->
            { Frame(HEADERS, END_STREAM, 1, bytes(<<130>>)),
              Frame(DATA, END_STREAM, 1, bytes(<<100>>)),
              Frame(HEADERS, END_HEADERS, 3, bytes(<<136>>)),
              Frame(RST_STREAM, 0, 1, bytes(<<0, 0, 0, 8>>)),
              Frame(SETTINGS, 0, 0, VecNew),
              Frame(WINDOW_UPDATE, 0, 1, bytes(<<0, 0, 1, 0>>)),
              Frame(255, END_HEADERS, 1, bytes(<<1>>)) }
      [] p = "errors" ->
            { Frame(RST_STREAM, 0, 1, bytes(<<0, 0, 8>>)),
              Frame(CONTINUATION, END_HEADERS, 1, bytes(<<134>>)),
              Frame(HEADERS, 0, 1, bytes(<<130>>)) }
      [] p = "loop" ->
            { Frame(SETTINGS, 1, 0, VecNew),
              Frame(255, 0, 0, VecNew),
              Frame(RST_STREAM, 0, 1, bytes(<<0, 0, 8>>)),
              PrefaceItem }
      [] OTHER -> {}

\* What process() hands back, as an entry of the host's log: the events of an
\* Ok, or the one error of an Err (or the panic)
ErrorEntry(r) ==
    [type |-> IF r.panic THEN "Panic" ELSE "Err", msg |-> r.msg, args |-> r.args]

Output(r) == IF r.ok THEN r.events ELSE <<ErrorEntry(r)>>

\* The number of items a peer sends in a behaviour: MaxFrames, and one less for
\* the peers with the widest repertoires
Budget(p) ==
    IF p \in {"short", "control", "reserved", "settings", "builders", "interleave"}
    THEN MaxFrames - 1 ELSE MaxFrames

VARIABLES
    buffer, streams, preface_received,
    pending_headers_stream, pending_headers_end_stream, pending_header_block,
    wire,      \* bytes the peer has sent and the host has not read yet
    peer,      \* the kind of peer
    sent,      \* number of items the peer has sent
    script,    \* the items sent since the last point where nothing was outstanding
    snap,      \* the codec at that point
    got,       \* what process() has returned since that point, call after call
    calls,     \* the number of process() calls since that point, up to CallsCap
    before_reset  \* if reset() opened the observation window: what it discarded
                  \* (noted for the peer that restarts connections)

codec_vars == <<buffer, streams, preface_received,
                pending_headers_stream, pending_headers_end_stream, pending_header_block>>

vars == <<buffer, streams, preface_received,
          pending_headers_stream, pending_headers_end_stream, pending_header_block,
          wire, peer, sent, script, snap, got, calls, before_reset>>

\* the H2Codec value
self ==
    [buffer                     |-> buffer,
     streams                    |-> streams,
     preface_received           |-> preface_received,
     pending_headers_stream     |-> pending_headers_stream,
     pending_headers_end_stream |-> pending_headers_end_stream,
     pending_header_block       |-> pending_header_block]

Becomes(c) ==
    /\ buffer' = c.buffer
    /\ streams' = c.streams
    /\ preface_received' = c.preface_received
    /\ pending_headers_stream' = c.pending_headers_stream
    /\ pending_headers_end_stream' = c.pending_headers_end_stream
    /\ pending_header_block' = c.pending_header_block

InitPeer(p) ==
    /\ buffer = new.buffer
    /\ streams = new.streams
    /\ preface_received = new.preface_received
    /\ pending_headers_stream = new.pending_headers_stream
    /\ pending_headers_end_stream = new.pending_headers_end_stream
    /\ pending_header_block = new.pending_header_block
    /\ wire = VecNew
    /\ peer = p
    /\ sent = 0
    /\ script = <<>>
    /\ snap = new
    /\ got = <<>>
    /\ calls = 0
    /\ before_reset = None

\* The peer puts one more item on the wire.  When nothing is outstanding (no
\* byte in flight, none buffered) the item starts a new observation window.
Send(f) ==
    /\ sent < Budget(peer)
    /\ f \in Repertoire(peer)
    /\ wire' = extend(wire, item_bytes(f))
    /\ sent' = sent + 1
    /\ IF vlen(wire) = 0 /\ vlen(buffer) = 0
       THEN /\ snap' = self
            /\ script' = <<f>>
            /\ got' = <<>>
            /\ calls' = 0
            /\ before_reset' = IF script = <<>> THEN before_reset ELSE None
       ELSE /\ script' = Append(script, f)
            /\ UNCHANGED <<snap, got, calls, before_reset>>
    /\ UNCHANGED <<codec_vars, peer>>

\* The reads the transport allows: up to MaxRead of the bytes in flight, or
\* all of them, as long as fewer than SplitWindow bytes stay behind
Reads ==
    {k \in (0..MaxRead) \cup {vlen(wire)} :
        k <= vlen(wire) /\ vlen(wire) - k < SplitWindow}

\* The host reads the next k bytes from the transport and hands them to
\* process()
Process(k) ==
    /\ k <= vlen(wire)
    /\ LET r == process(self, truncate(wire, k)) IN
        /\ Becomes(r.codec)
        /\ got' = got \o Output(r.result)
    /\ wire' = drain(wire, k)
    /\ calls' = IF calls < CallsCap THEN calls + 1 ELSE calls
    /\ UNCHANGED <<peer, sent, script, snap, before_reset>>

RemoveStream(stream_id) ==
    /\ Becomes(remove_stream(self, stream_id))
    /\ UNCHANGED <<wire, peer, sent, script, snap, got, calls, before_reset>>

\* The connection restarts: the host calls reset() and whatever was in flight
\* on the old connection is gone
Reset ==
    /\ Becomes(reset(self))
    /\ wire' = VecNew
    /\ script' = <<>>
    /\ snap' = reset(self)
    /\ got' = <<>>
    /\ calls' = 0
    /\ before_reset' = IF peer = "restart"
                       THEN Some([pending_headers_stream |-> pending_headers_stream,
                                  preface_received |-> preface_received])
                       ELSE None
    /\ UNCHANGED <<peer, sent>>

Next ==
    \/ \E f \in Repertoire(peer) : Send(f)
    \/ \E k \in Reads : Process(k)
    \/ \E stream_id \in StreamIds : RemoveStream(stream_id)
    \/ Reset

Init == InitPeer("assembly")

Spec == Init /\ [][Next]_vars

InitPreface == InitPeer("preface")

SpecPreface == InitPreface /\ [][Next]_vars

InitLimit == InitPeer("limit")

SpecLimit == InitLimit /\ [][Next]_vars

InitEndStream == InitPeer("endstream")

SpecEndStream == InitEndStream /\ [][Next]_vars

InitStreams == InitPeer("streams")

SpecStreams == InitStreams /\ [][Next]_vars

InitPriority == InitPeer("priority")

SpecPriority == InitPriority /\ [][Next]_vars

InitPadding == InitPeer("padding")

SpecPadding == InitPadding /\ [][Next]_vars

InitShort == InitPeer("short")

SpecShort == InitShort /\ [][Next]_vars

InitRestart == InitPeer("restart")

SpecRestart == InitRestart /\ [][Next]_vars

InitIgnored == InitPeer("ignored")

SpecIgnored == InitIgnored /\ [][Next]_vars

InitControl == InitPeer("control")

SpecControl == InitControl /\ [][Next]_vars

InitReserved == InitPeer("reserved")

SpecReserved == InitReserved /\ [][Next]_vars

InitSettings == InitPeer("settings")

SpecSettings == InitSettings /\ [][Next]_vars

InitBuilders == InitPeer("builders")

SpecBuilders == InitBuilders /\ [][Next]_vars

InitReplace == InitPeer("replace")

SpecReplace == InitReplace /\ [][Next]_vars

InitInterleave == InitPeer("interleave")

SpecInterleave == InitInterleave /\ [][Next]_vars

InitErrors == InitPeer("errors")

SpecErrors == InitErrors /\ [][Next]_vars

InitLoop == InitPeer("loop")

SpecLoop == InitLoop /\ [][Next]_vars

\* --------------------------------------------------------------------------
\* Properties
\* --------------------------------------------------------------------------

\* the bytes of the current window that process() has been given so far
Fed ==
    LET all == script_bytes(script) IN truncate(all, vlen(all) - vlen(wire))

IsEvent(e) == e.type \notin {"Err", "Panic"}

\* the events among the entries of a log
EventsOf(log) == SelectSeq(log, IsEvent)

\* C1: fragmentation invariant.  However the bytes given to the codec since
\* the start of the window were split into process() calls, the events those
\* calls returned, put end to end, are the events that one process() call on
\* the same bytes returns from the same starting state.
C1_FragmentationInvariant ==
    EventsOf(got) = process(snap, Fed).result.events

\* C2: one well-formed frame given to a codec past the preface.  While only a
\* proper prefix of the frame has been handed over, every call has returned Ok
\* with no events; the call that hands over the last byte returns what the
\* frame returns when it is given whole.
C2_SingleFrameSplit ==
    (/\ snap.preface_received
     /\ Len(script) = 1
     /\ script[1] # PrefaceItem)
    => IF vlen(wire) > 0
       THEN got = <<>>
       ELSE got = Output(process(snap, frame_bytes(script[1])).result)

\* C2 witness: past the preface, the header and part of the payload of one DATA
\* frame have been handed over, the rest is still in flight
C2_Witness ==
    /\ snap.preface_received
    /\ Len(script) = 1
    /\ script[1].type = DATA
    /\ vlen(buffer) = 10
    /\ vlen(wire) = 1
    /\ calls = CallsCap
    /\ got = <<>>

\* a HEADERS frame that opens a header block assembly: no END_HEADERS, and no
\* padding or priority fields, so that its fragment is its payload
OpensAssembly(f) ==
    /\ f.type = HEADERS
    /\ ~has_flag(f.flags, END_HEADERS)
    /\ ~has_flag(f.flags, PADDED)
    /\ ~has_flag(f.flags, PRIORITY_FLAG)

Continues(f, stream_id) == f.type = CONTINUATION /\ f.stream_id = stream_id

Completes(f, stream_id) == Continues(f, stream_id) /\ has_flag(f.flags, END_HEADERS)

\* the payloads of a sequence of frames, put end to end
RECURSIVE payloads(_)
payloads(fs) ==
    IF fs = <<>> THEN VecNew ELSE extend(fs[1].payload, payloads(Tail(fs)))

\* C3: a header block split over HEADERS (without END_HEADERS) and
\* CONTINUATION frames on the same stream, the last one with END_HEADERS.
\* Nothing is returned before the last byte of the last frame has been handed
\* over; then exactly one Headers event is returned, its block is the HEADERS
\* fragment followed by the CONTINUATION payloads in order, and no assembly is
\* pending any more.  The frames may arrive in one call or in several.
C3_Reassembly ==
    LET n == Len(script) IN
    (/\ n >= 2
     /\ OpensAssembly(script[1])
     /\ \A i \in 2..n :
           /\ Continues(script[i], script[1].stream_id)
           /\ has_flag(script[i].flags, END_HEADERS) <=> i = n)
    => IF vlen(wire) > 0
       THEN got = <<>>
       ELSE /\ got = <<Headers(script[1].stream_id, payloads(script),
                               has_flag(script[1].flags, END_STREAM))>>
            /\ pending_headers_stream = None
            /\ vlen(pending_header_block) = 0

\* C3 witness: HEADERS and two CONTINUATION frames, handed over in several
\* calls, have produced the one Headers event with the three-part block
C3_Witness ==
    /\ Len(script) = 3
    /\ OpensAssembly(script[1])
    /\ Continues(script[2], script[1].stream_id)
    /\ Completes(script[3], script[1].stream_id)
    /\ ~has_flag(script[2].flags, END_HEADERS)
    /\ vlen(wire) = 0
    /\ calls = CallsCap
    /\ Len(got) = 1
    /\ got[1].type = "Headers"
    /\ got[1].header_block = bytes(<<130, 134, 65, 138>>)

\* a frame that may pass between the opening HEADERS and the completing
\* CONTINUATION without opening another assembly or completing this one
InBetween(f, stream_id) ==
    /\ f # PrefaceItem
    /\ f.type # HEADERS
    /\ ~Completes(f, stream_id)

\* the frames of a sequence that continue the assembly on a stream
ContinuationsOf(fs, stream_id) == SelectSeq(fs, LAMBDA f : Continues(f, stream_id))

\* C4: the end_stream of a reassembled Headers event is the END_STREAM flag of
\* the HEADERS frame that opened the assembly; the flags of the CONTINUATION
\* frames and the frames dispatched in between do not change it.
C4_EndStreamFromHeaders ==
    LET n == Len(script) IN
    (/\ n >= 2
     /\ OpensAssembly(script[1])
     /\ Completes(script[n], script[1].stream_id)
     /\ \A i \in 2..(n - 1) : InBetween(script[i], script[1].stream_id)
     /\ vlen(script[1].payload)
          + vlen(payloads(ContinuationsOf(Tail(script), script[1].stream_id)))
            <= MAX_HEADER_BLOCK_SIZE
     /\ vlen(wire) = 0
     /\ vlen(buffer) = 0)
    => /\ got # <<>>
       /\ got[Len(got)].type = "Headers"
       /\ got[Len(got)].stream_id = script[1].stream_id
       /\ got[Len(got)].end_stream = has_flag(script[1].flags, END_STREAM)

\* C4 witness: HEADERS without END_STREAM, a DATA frame with END_STREAM, and a
\* completing CONTINUATION that carries the END_STREAM bit; the Headers event
\* says end_stream = false
C4_Witness ==
    /\ Len(script) = 3
    /\ OpensAssembly(script[1])
    /\ ~has_flag(script[1].flags, END_STREAM)
    /\ script[2].type = DATA
    /\ has_flag(script[2].flags, END_STREAM)
    /\ Completes(script[3], script[1].stream_id)
    /\ has_flag(script[3].flags, END_STREAM)
    /\ vlen(wire) = 0
    /\ vlen(buffer) = 0
    /\ Len(got) = 2
    /\ got[2].type = "Headers"
    /\ got[2].end_stream = FALSE

\* the first frame of the window has been handed over completely
FirstFrameFed == script # <<>> /\ vlen(Fed) >= vlen(item_bytes(script[1]))

\* C7: a CONTINUATION frame dispatched while no assembly is pending is answered
\* with the "unexpected CONTINUATION" error and with no event, whether the
\* codec is fresh, has completed an assembly before, or has been reset.
C7_UnexpectedContinuation ==
    (/\ script # <<>>
     /\ script[1].type = CONTINUATION
     /\ snap.pending_headers_stream = None
     /\ FirstFrameFed)
    => /\ got # <<>>
       /\ got[1] = ErrorEntry(Err("Unexpected CONTINUATION frame for stream {}",
                                  <<script[1].stream_id>>))
       /\ Len(script) = 1 => /\ Len(got) = 1
                             /\ pending_headers_stream = None
                             /\ vlen(pending_header_block) = 0

\* C7 witness: an assembly on stream 1 has completed earlier; the CONTINUATION
\* frame that follows it has been answered with the error alone
C7_Witness ==
    /\ Len(script) = 1
    /\ script[1].type = CONTINUATION
    /\ 1 \in DOMAIN snap.streams
    /\ snap.streams[1].headers_complete
    /\ snap.pending_headers_stream = None
    /\ vlen(wire) = 0
    /\ Len(got) = 1
    /\ got[1].type = "Err"
    /\ got[1].msg = "Unexpected CONTINUATION frame for stream {}"

C5_PendingBlockBounded ==
    vlen(pending_header_block) <= 262144

\* C5 witness: a HEADERS fragment of 262,143 bytes and a one-byte CONTINUATION
\* payload are pending, 262,144 bytes in all
C5_Witness ==
    /\ pending_headers_stream = Some(1)
    /\ vlen(pending_header_block) = 262144
    /\ at(pending_header_block, 262143) = 65

\* the first two frames of the window have been handed over completely
FirstTwoFramesFed ==
    /\ Len(script) >= 2
    /\ vlen(Fed) >= vlen(item_bytes(script[1])) + vlen(item_bytes(script[2]))

\* C6: a CONTINUATION frame for the pending stream.  If the pending block and
\* its payload together are at most 262,144 bytes, exactly 262,144 included,
\* the payload is appended (and the Headers event returned on END_HEADERS).
\* If they are more, the frame is answered with the resource-limit error that
\* names the total, the pending assembly is cleared, and a CONTINUATION frame
\* that follows is answered as unexpected.
C6_ContinuationAtLimit ==
    (/\ script # <<>>
     /\ snap.pending_headers_stream # None
     /\ Continues(script[1], snap.pending_headers_stream[1])
     /\ FirstFrameFed)
    => LET f == script[1]
           total == vlen(snap.pending_header_block) + vlen(f.payload)
           block == extend(snap.pending_header_block, f.payload)
       IN  IF total <= 262144
           THEN Len(script) = 1 =>
                  IF has_flag(f.flags, END_HEADERS)
                  THEN /\ got = <<Headers(f.stream_id, block,
                                          snap.pending_headers_end_stream)>>
                       /\ pending_headers_stream = None
                  ELSE /\ got = <<>>
                       /\ pending_headers_stream = snap.pending_headers_stream
                       /\ pending_header_block = block
           ELSE /\ got # <<>>
                /\ got[1] = ErrorEntry(Err("Header block too large ({} bytes, max {})",
                                           <<total, 262144>>))
                /\ Len(script) = 1 => /\ Len(got) = 1
                                      /\ pending_headers_stream = None
                                      /\ vlen(pending_header_block) = 0
                /\ (FirstTwoFramesFed /\ script[2].type = CONTINUATION /\ vlen(buffer) = 0)
                   => /\ Len(got) >= 2
                      /\ got[2] = ErrorEntry(Err("Unexpected CONTINUATION frame for stream {}",
                                                 <<script[2].stream_id>>))

\* C6 witness: 262,144 bytes were pending; the one-byte CONTINUATION frame has
\* been refused as too large and the CONTINUATION frame behind it as unexpected
C6_Witness ==
    /\ Len(script) = 2
    /\ vlen(snap.pending_header_block) = 262144
    /\ snap.pending_headers_stream = Some(1)
    /\ vlen(wire) = 0
    /\ Len(got) = 2
    /\ got[1].type = "Err"
    /\ got[1].args = <<262145, 262144>>
    /\ got[2].type = "Err"
    /\ got[2].msg = "Unexpected CONTINUATION frame for stream {}"
    /\ pending_headers_stream = None

\* the reference feed: each item of a sequence handed to process() in a call
\* of its own, one after the other; the codec and the Result after each call
RECURSIVE frame_by_frame(_, _)
frame_by_frame(c, items) ==
    IF items = <<>> THEN <<>>
    ELSE LET r == process(c, item_bytes(items[1]))
         IN  <<r>> \o frame_by_frame(r.codec, Tail(items))

\* the events of a sequence of Results, put end to end
RECURSIVE events_of(_)
events_of(rs) ==
    IF rs = <<>> THEN <<>> ELSE rs[1].result.events \o events_of(Tail(rs))

\* one process() call has been given the whole window
OneCall == script # <<>> /\ calls = 1 /\ vlen(wire) = 0

\* the frames of the window that fail when they are dispatched
Failing == {i \in 1..Len(script) : ~frame_by_frame(snap, script)[i].result.ok}

\* C9: when a frame of a process() call fails, dispatch stops there.  The call
\* returns the error alone, without the events of the frames before it; the
\* frames behind it are not dispatched, they stay in the buffer, which has
\* advanced past the failing frame; the next call returns what those frames
\* return, and nothing of the frames before.
C9_ErrorStopsDispatch ==
    (OneCall /\ Failing # {})
    => LET j == CHOOSE i \in Failing : \A k \in Failing : i <= k
           at_error == frame_by_frame(snap, script)[j]
           behind == script_bytes(SubSeq(script, j + 1, Len(script)))
       IN  /\ got = <<ErrorEntry(at_error.result)>>
           /\ buffer = behind
           /\ pending_headers_stream = at_error.codec.pending_headers_stream
           /\ pending_header_block = at_error.codec.pending_header_block
           /\ Output(process(self, VecNew).result)
                = Output(process(at_error.codec, behind).result)

\* C9 witness: one call was given a DATA frame, a CONTINUATION frame that is
\* refused, and another DATA frame; it returned the error alone and the last
\* frame is still in the buffer
C9_Witness ==
    /\ OneCall
    /\ Len(script) = 3
    /\ script[1].type = DATA
    /\ script[2].type = CONTINUATION
    /\ script[3].type = DATA
    /\ Len(got) = 1
    /\ got[1].type = "Err"
    /\ vlen(buffer) = 10

\* C10: the events of one process() call are in the order of the frames that
\* completed them, at most one per frame, and a frame that completes no event
\* contributes nothing.
C10_EventsInFrameOrder ==
    (OneCall /\ Failing = {})
    => /\ got = events_of(frame_by_frame(snap, script))
       /\ \A i \in 1..Len(script) :
             Len(frame_by_frame(snap, script)[i].result.events) <= 1

\* C10 witness: one call was given a DATA frame, a HEADERS frame without
\* END_HEADERS and the CONTINUATION frame that completes it; it returned the
\* Data event and then the Headers event
C10_Witness ==
    /\ OneCall
    /\ Len(script) = 3
    /\ script[1].type = DATA
    /\ script[2].type = HEADERS
    /\ script[3].type = CONTINUATION
    /\ Len(got) = 2
    /\ got[1].type = "Data"
    /\ got[2].type = "Headers"

\* C11: after reset() the codec is a newly created codec: its six fields have
\* the values new() gives them, so every call made afterwards returns what it
\* returns on a fresh codec.  A CONTINUATION frame sent after the reset fails
\* as unexpected even if the reset discarded the assembly it belongs to, and
\* a connection preface sent after the reset is recognised again.
C11_ResetIsNew ==
    /\ (script = <<>> /\ calls = 0) => self = new
    /\ before_reset # None =>
         /\ snap = new
         /\ OneCall => got = Output(process(new, script_bytes(script)).result)
         /\ (script # <<>> /\ script[1].type = CONTINUATION /\ FirstFrameFed)
            => got[1] = ErrorEntry(Err("Unexpected CONTINUATION frame for stream {}",
                                      <<script[1].stream_id>>))
         /\ (script # <<>> /\ script[1] = PrefaceItem /\ FirstFrameFed)
            => /\ preface_received
               /\ Len(script) = 1 => vlen(buffer) = 0

\* C11 witness: the preface had been received and headers were pending on
\* stream 1 when reset() was called; the CONTINUATION frame sent afterwards
\* for stream 1 has been refused as unexpected
C11_Witness ==
    /\ before_reset = Some([pending_headers_stream |-> Some(1), preface_received |-> TRUE])
    /\ Len(script) = 1
    /\ script[1].type = CONTINUATION
    /\ script[1].stream_id = 1
    /\ vlen(wire) = 0
    /\ got = <<ErrorEntry(Err("Unexpected CONTINUATION frame for stream {}", <<1>>))>>

\* C12: the connection preface reaches a codec whose preface flag is unset,
\* split over process() calls at any offsets.  While fewer than 24 bytes have
\* been handed over, every call has returned Ok with no events, the bytes are
\* buffered and the flag is unset.  From the 24th byte on the flag is set, the
\* 24 bytes are gone from the buffer, and the frames behind the preface have
\* returned what they return when preface and frames arrive in one call.
C12_PrefaceDeferred ==
    (/\ script # <<>>
     /\ script[1] = PrefaceItem
     /\ ~snap.preface_received)
    => IF vlen(Fed) < vlen(CONNECTION_PREFACE)
       THEN /\ got = <<>>
            /\ ~preface_received
            /\ buffer = Fed
       ELSE LET once == process(snap, Fed) IN
            /\ preface_received
            /\ once.result.ok
            /\ got = once.result.events
            /\ buffer = once.codec.buffer
            /\ vlen(buffer) <= vlen(Fed) - vlen(CONNECTION_PREFACE)

\* C12 witness: 23 bytes of the preface have been handed over in calls of one
\* or two bytes; they are buffered, nothing has been returned, the flag is
\* unset and the last byte is still in flight
C12_Witness ==
    /\ script = <<PrefaceItem>>
    /\ ~snap.preface_received
    /\ vlen(wire) = 1
    /\ vlen(buffer) = 23
    /\ calls = CallsCap
    /\ ~preface_received
    /\ got = <<>>

\* a preface literal that arrives when the flag is already set stays in the
\* buffer as the start of a frame, with everything handed over behind it
SecondPrefaceKept ==
    /\ (/\ script # <<>>
        /\ script[1] = PrefaceItem
        /\ snap.preface_received
        /\ FirstFrameFed)
       => /\ preface_received
          /\ buffer = Fed
          /\ got = <<>>
    /\ (/\ Len(script) >= 2
        /\ script[1] = PrefaceItem
        /\ script[2] = PrefaceItem
        /\ ~snap.preface_received
        /\ FirstTwoFramesFed)
       => /\ preface_received
          /\ buffer = drain(Fed, vlen(CONNECTION_PREFACE))
          /\ got = <<>>

\* C13: once the preface flag is set it stays set until reset() is called, and
\* only one preface is removed from the input: a preface literal that comes to
\* the head of the buffer afterwards is kept as frame bytes.
C13_PrefaceOnce ==
    /\ [][preface_received => (preface_received' \/ Reset)]_vars
    /\ []SecondPrefaceKept

\* C13 witness: the preface had been received before the window; the second
\* preface has been handed over and sits in the buffer, unstripped
C13_Witness ==
    /\ snap.preface_received
    /\ script = <<PrefaceItem>>
    /\ vlen(wire) = 0
    /\ calls >= 1
    /\ preface_received
    /\ buffer = CONNECTION_PREFACE

\* the window is one RST_STREAM frame with at least 4 payload bytes
ResetFrameAlone ==
    /\ Len(script) = 1
    /\ script[1].type = RST_STREAM
    /\ vlen(script[1].payload) >= 4

\* the step in which process() is given the last bytes of the window
LastBytesHandedOver == vlen(wire) > 0 /\ vlen(wire') = 0 /\ script' = script

\* C14: the call that completes an RST_STREAM frame with at least 4 payload
\* bytes for stream s returns StreamReset{s, error_code}, where error_code is
\* the first 4 payload bytes; afterwards the stream table has no entry for s,
\* whether it had one or not, the entries of the other streams are what they
\* were, and remove_stream(s) changes nothing.
C14_RstStreamRemovesState ==
    [][(ResetFrameAlone /\ LastBytesHandedOver)
       => LET s == script[1].stream_id IN
          /\ got' = <<StreamReset(s, from_be_bytes(script[1].payload, 0))>>
          /\ s \notin DOMAIN streams'
          /\ DOMAIN streams' = DOMAIN streams \ {s}
          /\ \A t \in DOMAIN streams' : streams'[t] = streams[t]
          /\ remove_stream(self, s)' = self']_vars

\* C14 witness: streams 1 and 3 were tracked; RST_STREAM for stream 1 with code
\* 0xd has returned StreamReset{1, 13}, stream 1 is gone and stream 3 is there
C14_Witness ==
    /\ ResetFrameAlone
    /\ script[1].stream_id = 1
    /\ DOMAIN snap.streams = {1, 3}
    /\ vlen(wire) = 0
    /\ got = <<StreamReset(1, 13)>>
    /\ DOMAIN streams = {3}
    /\ streams[3] = snap.streams[3]

\* C15: stream s has tracked state, an RST_STREAM frame for s is dispatched,
\* and the next frame is a CONTINUATION frame for s: that frame fails as an
\* unexpected CONTINUATION, whatever frames gave s its state.
C15_ContinuationAfterRst ==
    (/\ Len(script) >= 2
     /\ vlen(buffer) = 0
     /\ FirstTwoFramesFed
     /\ script[1].type = RST_STREAM
     /\ vlen(script[1].payload) >= 4
     /\ script[1].stream_id \in DOMAIN snap.streams
     /\ Continues(script[2], script[1].stream_id))
    => /\ Len(got) >= 2
       /\ got[2] = ErrorEntry(Err("Unexpected CONTINUATION frame for stream {}",
                                  <<script[2].stream_id>>))

\* the header block fragment of a HEADERS frame without the PRIORITY flag whose
\* padding is valid: the payload, less the pad-length byte and the padding
fragment_of(f) ==
    IF has_flag(f.flags, PADDED)
    THEN truncate(drain(f.payload, 1), vlen(f.payload) - 1 - at(f.payload, 0))
    ELSE f.payload

\* C16: a HEADERS frame without END_HEADERS.  If its fragment, after the
\* padding is stripped, is longer than 262,144 bytes, process() returns the
\* "header block too large" error and no event, and the frame starts no
\* assembly (the pending fields are as before); a fragment of exactly 262,144
\* bytes starts the assembly.
C16_HeadersFragmentLimit ==
    (/\ script # <<>>
     /\ script[1].type = HEADERS
     /\ ~has_flag(script[1].flags, END_HEADERS)
     /\ ~has_flag(script[1].flags, PRIORITY_FLAG)
     /\ FirstFrameFed)
    => LET f == script[1]
           size == vlen(fragment_of(f))
       IN  IF size > 262144
           THEN /\ got # <<>>
                /\ got[1] = ErrorEntry(Err("Header block too large ({} bytes, max {})",
                                           <<size, 262144>>))
                /\ Len(script) = 1
                   => /\ Len(got) = 1
                      /\ pending_headers_stream = snap.pending_headers_stream
                      /\ pending_headers_end_stream = snap.pending_headers_end_stream
                      /\ pending_header_block = snap.pending_header_block
           ELSE Len(script) = 1
                => /\ got = <<>>
                   /\ pending_headers_stream = Some(f.stream_id)
                   /\ pending_headers_end_stream = has_flag(f.flags, END_STREAM)
                   /\ pending_header_block = fragment_of(f)

\* C16 witness: a HEADERS frame with a fragment of 262,145 bytes has been
\* answered with the error while an assembly on stream 1 was pending; that
\* assembly is still the pending one
C16_Witness ==
    /\ Len(script) = 1
    /\ script[1].type = HEADERS
    /\ vlen(script[1].payload) = 262145
    /\ snap.pending_headers_stream = Some(1)
    /\ vlen(wire) = 0
    /\ Len(got) = 1
    /\ got[1].type = "Err"
    /\ got[1].args = <<262145, 262144>>
    /\ pending_headers_stream = Some(1)

\* the window is one frame of the given type, handed over completely
OneFrameFed(type) == Len(script) = 1 /\ script[1].type = type /\ vlen(wire) = 0

\* the pad-length byte of a PADDED frame is there and leaves room for the
\* padding it declares
padding_fits(f) ==
    vlen(f.payload) > 0 /\ at(f.payload, 0) < vlen(f.payload) - 1

\* the payload of a frame without the pad-length byte and the padding
unpadded(f) ==
    IF has_flag(f.flags, PADDED)
    THEN truncate(drain(f.payload, 1), vlen(f.payload) - 1 - at(f.payload, 0))
    ELSE f.payload

\* C17: a HEADERS frame with the PRIORITY flag.  If fewer than 5 payload bytes
\* remain once the pad-length byte and the padding are excluded, process()
\* returns an error; otherwise the header block of the Headers event is what
\* lies between the 5-byte priority prefix and the padding.  In no case does
\* process() abort.
C17_PriorityStripping ==
    (/\ OneFrameFed(HEADERS)
     /\ has_flag(script[1].flags, PRIORITY_FLAG)
     /\ has_flag(script[1].flags, END_HEADERS)
     /\ has_flag(script[1].flags, PADDED) => padding_fits(script[1]))
    => LET f == script[1] IN
       /\ Len(got) = 1
       /\ got[1].type # "Panic"
       /\ IF vlen(unpadded(f)) < 5
          THEN got[1].type = "Err"
          ELSE got[1] = Headers(f.stream_id, drain(unpadded(f), 5),
                                has_flag(f.flags, END_STREAM))

\* C18: a PADDED DATA frame whose payload is empty, or whose pad length is at
\* least the number of payload bytes behind the pad-length byte, is answered
\* with an error about its padding, and no Data event is returned for it.
C18_InvalidDataPadding ==
    (/\ OneFrameFed(DATA)
     /\ has_flag(script[1].flags, PADDED)
     /\ ~padding_fits(script[1]))
    => /\ Len(got) = 1
       /\ got[1].type = "Err"
       /\ got[1].msg \in {"PADDED DATA frame with no payload",
                           "Invalid padding length in DATA frame"}

\* C19: a DATA frame that is accepted.  With the PADDED flag the data of the
\* Data event is the payload less its first byte p and its last p bytes;
\* without the flag the frame is always accepted and the data is the payload,
\* the empty payload included.  end_stream is the END_STREAM flag of the frame
\* and stream_id its stream id.
C19_DataPayload ==
    OneFrameFed(DATA)
    => LET f == script[1]
           p == IF has_flag(f.flags, PADDED) THEN at(f.payload, 0) ELSE 0
           skip == IF has_flag(f.flags, PADDED) THEN 1 ELSE 0
           data == drain(truncate(f.payload, vlen(f.payload) - p), skip)
       IN  /\ Len(got) = 1
           /\ (~has_flag(f.flags, PADDED) \/ got[1].type = "Data")
              => got[1] = Data(f.stream_id, data, has_flag(f.flags, END_STREAM))

\* C19 witness: the PADDED DATA frame with payload 2, 'h', 'i', 0, 0 and
\* END_STREAM has returned Data{1, "hi", end_stream}
C19_Witness ==
    /\ OneFrameFed(DATA)
    /\ has_flag(script[1].flags, PADDED)
    /\ vlen(script[1].payload) = 5
    /\ got = <<Data(1, bytes(<<104, 105>>), TRUE)>>

\* the least payload length of the frame types with a fixed-size body
min_payload(type) == IF type \in {RST_STREAM, WINDOW_UPDATE} THEN 4 ELSE 8

event_name(type) ==
    CASE type = RST_STREAM    -> "StreamReset"
      [] type = WINDOW_UPDATE -> "WindowUpdate"
      [] type = GOAWAY        -> "GoAway"
      [] type = PING          -> "Ping"

too_short_message(type) ==
    CASE type = RST_STREAM    -> "RST_STREAM frame too short"
      [] type = WINDOW_UPDATE -> "WINDOW_UPDATE frame too short"
      [] type = GOAWAY        -> "GOAWAY frame too short"
      [] type = PING          -> "PING frame too short"

\* C20: an RST_STREAM or WINDOW_UPDATE frame with fewer than 4 payload bytes,
\* and a GOAWAY or PING frame with fewer than 8, makes process() return the
\* error that names the frame type, and no event; a frame of these types with
\* the least length or more is accepted and returns its event.
C20_TooShortFrames ==
    \A type \in {RST_STREAM, WINDOW_UPDATE, GOAWAY, PING} :
        OneFrameFed(type)
        => IF vlen(script[1].payload) < min_payload(type)
           THEN got = <<ErrorEntry(Err(too_short_message(type), <<>>))>>
           ELSE Len(got) = 1 /\ got[1].type = event_name(type)

\* C20 witness: a PING frame with 7 payload bytes has been answered with the
\* error that names PING
C20_Witness ==
    /\ OneFrameFed(PING)
    /\ vlen(script[1].payload) = 7
    /\ calls = CallsCap
    /\ got = <<ErrorEntry(Err("PING frame too short", <<>>))>>

\* a frame of a type that parse_frame passes over: PRIORITY, PUSH_PROMISE, or a
\* type it does not know
Ignored(f) ==
    /\ f # PrefaceItem
    /\ f.type \notin {DATA, HEADERS, CONTINUATION, RST_STREAM, SETTINGS,
                      GOAWAY, WINDOW_UPDATE, PING}

\* a sequence of frames without the frames that are passed over
without_ignored(fs) == SelectSeq(fs, LAMBDA f : ~Ignored(f))

\* in one call, the window returns what it returns without its ignored frames,
\* and leaves the same pending assembly and the same preface flag; unless a
\* frame failed, all frames are gone from the buffer
IgnoredFramesTransparent ==
    (OneCall /\ \E i \in 1..Len(script) : Ignored(script[i]))
    => LET without == process(snap, script_bytes(without_ignored(script))) IN
       /\ got = Output(without.result)
       /\ pending_headers_stream = without.codec.pending_headers_stream
       /\ pending_headers_end_stream = without.codec.pending_headers_end_stream
       /\ pending_header_block = without.codec.pending_header_block
       /\ preface_received = without.codec.preface_received
       /\ without.result.ok => vlen(buffer) = 0

\* C21: PRIORITY, PUSH_PROMISE and unknown frame types are never errors.  A
\* process() call that is given nothing but (parts of) such frames returns Ok
\* with no events and changes neither the stream table nor the pending
\* assembly nor the preface flag; once the frames are complete the buffer is
\* empty.  Among other frames they are transparent: the call returns what it
\* returns without them.
C21_IgnoredFramesSkipped ==
    /\ [][(/\ script # <<>>
           /\ script' = script
           /\ calls < CallsCap
           /\ calls' = calls + 1
           /\ \A i \in 1..Len(script) : Ignored(script[i]))
          => /\ got' = <<>>
             /\ streams' = streams
             /\ pending_headers_stream' = pending_headers_stream
             /\ pending_headers_end_stream' = pending_headers_end_stream
             /\ pending_header_block' = pending_header_block
             /\ preface_received' = preface_received
             /\ vlen(wire') = 0 => vlen(buffer') = 0]_vars
    /\ []IgnoredFramesTransparent

\* C21 witness: one call was given a HEADERS frame without END_HEADERS, a
\* PRIORITY frame and the CONTINUATION frame that completes the block; it
\* returned the one Headers event, and stream 3, named by the PRIORITY frame,
\* has no entry
C21_Witness ==
    /\ OneCall
    /\ Len(script) = 3
    /\ script[1].type = HEADERS
    /\ script[2].type = PRIORITY
    /\ script[3].type = CONTINUATION
    /\ got = <<Headers(1, bytes(<<130, 134>>), FALSE)>>
    /\ 3 \notin DOMAIN streams
    /\ vlen(buffer) = 0

\* C22: a stream id acquires an entry in the stream table only when a DATA or
\* HEADERS frame naming it is processed: every entry that was not in the table
\* at the start of the window is named by a DATA or HEADERS frame of the
\* window.
C22_EntriesFromDataOrHeaders ==
    \A id \in DOMAIN streams :
        \/ id \in DOMAIN snap.streams
        \/ \E i \in 1..Len(script) :
              /\ script[i].type \in {DATA, HEADERS}
              /\ script[i].stream_id = id

\* the events that the step's process() call has returned
NewEvents == {got'[j] : j \in (Len(got) + 1)..Len(got')}

\* the window holds only frames of the connection-control types
OnlyControlFrames ==
    /\ script # <<>>
    /\ \A i \in 1..Len(script) :
          script[i].type \in {GOAWAY, SETTINGS, PING, WINDOW_UPDATE}

\* C23: an entry leaves the stream table only through remove_stream(id),
\* through reset(), or in a process() call that dispatches an RST_STREAM frame
\* for that stream.  So an entry whose headers_complete and stream_ended are
\* both true stays, and a call that is given GOAWAY, SETTINGS, PING and
\* WINDOW_UPDATE frames leaves the whole table as it was.
C23_StreamRemoval ==
    /\ [][\A id \in DOMAIN streams \ DOMAIN streams' :
             \/ RemoveStream(id)
             \/ Reset
             \/ /\ script' = script
                /\ \E e \in NewEvents : e.type = "StreamReset" /\ e.stream_id = id]_vars
    /\ [][(OnlyControlFrames /\ script' = script)
          => (streams' = streams \/ \E id \in StreamIds : RemoveStream(id))]_vars

\* C23 witness: stream 1 has received its complete headers with END_STREAM;
\* the GOAWAY frame that names it as last stream has returned its event and
\* the entry is still there, both flags true
C23_Witness ==
    /\ OneFrameFed(GOAWAY)
    /\ got = <<GoAway(1, 0)>>
    /\ 1 \in DOMAIN streams
    /\ streams[1] = [headers_complete |-> TRUE, stream_ended |-> TRUE]
    /\ streams = snap.streams

\* remove_stream(id) applied to the codec as it is: the entry of id is gone,
\* the other entries and the other fields are as before, nothing changes when
\* id has no entry, and a second call changes nothing
RemoveStreamIdempotent ==
    \A id \in StreamIds \cup {0} :
        LET once == remove_stream(self, id) IN
        /\ DOMAIN once.streams = DOMAIN streams \ {id}
        /\ \A t \in DOMAIN once.streams : once.streams[t] = streams[t]
        /\ once.buffer = buffer
        /\ once.preface_received = preface_received
        /\ once.pending_headers_stream = pending_headers_stream
        /\ once.pending_headers_end_stream = pending_headers_end_stream
        /\ once.pending_header_block = pending_header_block
        /\ id \notin DOMAIN streams => once = self
        /\ remove_stream(once, id) = once

\* C24: remove_stream(id) removes the entry of id if there is one and does
\* nothing otherwise; calling it twice is calling it once; it never changes the
\* buffer, the preface flag, the pending assembly or the entries of the other
\* streams.
C24_RemoveStreamIdempotent ==
    /\ []RemoveStreamIdempotent
    /\ [][\A id \in StreamIds :
             RemoveStream(id) => /\ self' = remove_stream(self, id)
                                 /\ remove_stream(self, id)' = self'
                                 /\ got' = got]_vars

\* C24 witness: remove_stream(1) has been called while the header block of
\* stream 1 was being assembled and part of the next frame was buffered: the
\* entry of stream 1 is gone, the entry of stream 3, the pending assembly and
\* the buffered bytes are still there
C24_Witness ==
    /\ Len(script) = 2
    /\ script[1].type = HEADERS
    /\ script[1].stream_id = 1
    /\ script[2].type = CONTINUATION
    /\ pending_headers_stream = Some(1)
    /\ pending_header_block = bytes(<<132>>)
    /\ vlen(buffer) = 9
    /\ got = <<>>
    /\ DOMAIN streams = {3}

\* the number of bytes of a sequence of items
RECURSIVE items_len(_)
items_len(fs) ==
    IF fs = <<>> THEN 0 ELSE vlen(item_bytes(fs[1])) + items_len(Tail(fs))

\* the offsets in the bytes of the window at which an item ends
Boundaries == {items_len(SubSeq(script, 1, i)) : i \in 0..Len(script)}

\* the buffer is the tail of the bytes handed over, and what has been removed
\* in front of it is a whole number of items (the preface, frames)
BufferIsSuffix ==
    LET fed == Fed IN
    /\ vlen(buffer) <= vlen(fed)
    /\ (vlen(fed) - vlen(buffer)) \in Boundaries
    /\ buffer = drain(fed, vlen(fed) - vlen(buffer))

\* less than one complete frame: no complete header, or a header and less
\* than the payload it announces
LessThanOneFrame(b) ==
    \/ vlen(b) < 9
    \/ vlen(b) < 9 + parse(b)[1].length

\* all of the window has been handed over, and the window is made of frames,
\* behind the preface if the codec was waiting for it
EndsOnFrameBoundary ==
    /\ vlen(wire) = 0
    /\ \A i \in 1..Len(script) :
          script[i] = PrefaceItem => (i = 1 /\ ~snap.preface_received)

\* the step is a process() call that took bytes, changed the buffer or returned
\* events, and that returned Ok: a call that returns Err adds its error as the
\* last entry of the log
ProcessReturnedOk ==
    /\ script' = script
    /\ sent' = sent
    /\ wire' # wire \/ buffer' # buffer \/ got' # got
    /\ Len(got') = Len(got) \/ IsEvent(got'[Len(got')])

\* C25: between calls the buffer is a suffix of the bytes handed over since
\* creation or reset(); bytes leave it at the front only, the 24-byte preface
\* or whole frames at a time.  When a process() call has returned Ok the buffer
\* holds less than one complete frame, and it is empty if the input ended on a
\* frame boundary.
C25_BufferIsSuffix ==
    /\ []BufferIsSuffix
    /\ [][ProcessReturnedOk
          => /\ LessThanOneFrame(buffer')
             /\ EndsOnFrameBoundary' => vlen(buffer') = 0]_vars

\* C25 witness: the preface, a complete HEADERS frame and the first 9 bytes of
\* a CONTINUATION frame have been handed over; the buffer holds those 9 bytes
\* and the last byte is in flight
C25_Witness ==
    /\ Len(script) = 3
    /\ script[1] = PrefaceItem
    /\ script[2].type = HEADERS
    /\ script[3].type = CONTINUATION
    /\ ~snap.preface_received
    /\ preface_received
    /\ vlen(wire) = 1
    /\ vlen(buffer) = 9
    /\ buffer = truncate(frame_bytes(script[3]), 9)
    /\ pending_headers_stream = Some(1)

\* a 32-bit pattern with bit 31 cleared
low31(x) == IF x < 0 THEN (x + 2147483647) + 1 ELSE x

\* the 32-bit pattern of the four bytes at offset i
pattern32(v, i) ==
    (IF at(v, i) >= 128 THEN at(v, i) - 256 ELSE at(v, i)) * 16777216
      + at(v, i + 1) * 65536 + at(v, i + 2) * 256 + at(v, i + 3)

\* the 31-bit fields of an entry of the log
fields31(e) ==
    CASE e.type \in {"Headers", "Data", "StreamReset"} -> {e.stream_id}
      [] e.type = "WindowUpdate" -> {e.stream_id, e.increment}
      [] e.type = "GoAway"       -> {e.last_stream_id}
      [] OTHER                   -> {}

\* what one frame returns when the reserved bits of its stream id, last stream
\* id and increment are cleared and every other bit is kept
expected31(f) ==
    CASE f.type = DATA ->
            Data(low31(f.stream_id), f.payload, has_flag(f.flags, END_STREAM))
      [] f.type = HEADERS ->
            Headers(low31(f.stream_id), f.payload, has_flag(f.flags, END_STREAM))
      [] f.type = RST_STREAM ->
            StreamReset(low31(f.stream_id), pattern32(f.payload, 0))
      [] f.type = WINDOW_UPDATE ->
            WindowUpdate(low31(f.stream_id), low31(pattern32(f.payload, 0)))
      [] f.type = GOAWAY ->
            GoAway(low31(pattern32(f.payload, 0)), pattern32(f.payload, 4))

\* C26: every stream_id of an event, every GoAway last_stream_id and every
\* WindowUpdate increment is below 2^31 (as a 32-bit pattern: not negative);
\* the reserved top bit of the wire value is cleared and the other 31 bits are
\* kept, so wire stream id 0x80000005 gives 5 and wire increment 0x80010000
\* gives 65536.
C26_ReservedBitCleared ==
    /\ \A j \in 1..Len(got) : \A x \in fields31(got[j]) : x >= 0
    /\ \A id \in DOMAIN streams : id >= 0
    /\ (Len(script) = 1 /\ vlen(wire) = 0) => got = <<expected31(script[1])>>

\* C26 witness: the WINDOW_UPDATE frame with wire stream id 0x80000005 and
\* wire increment 0x80010000 has returned WindowUpdate{5, 65536}
C26_Witness ==
    /\ OneFrameFed(WINDOW_UPDATE)
    /\ script[1].stream_id < 0
    /\ calls = CallsCap
    /\ got = <<WindowUpdate(5, 65536)>>

\* the complete 6-byte entries of a SETTINGS payload, in wire order: a 16-bit
\* id and a 32-bit value each
settings_entries(payload) ==
    [i \in 1..(vlen(payload) \div 6) |->
        <<at(payload, 6 * i - 6) * 256 + at(payload, 6 * i - 5),
          pattern32(payload, 6 * i - 4)>>]

\* the one event of a SETTINGS frame
settings_event(f) ==
    IF has_flag(f.flags, 1)
    THEN Settings(TRUE, <<>>)
    ELSE Settings(FALSE, settings_entries(f.payload))

\* C27: a SETTINGS frame always yields exactly one Settings event.  With the
\* ACK flag its list is empty whatever the payload; without it the list has
\* one (id, value) pair per complete 6-byte entry of the payload, in wire
\* order, a trailing incomplete entry is dropped and entries with unknown ids
\* are kept.
C27_SettingsParsing ==
    (/\ script # <<>>
     /\ vlen(wire) = 0
     /\ \A i \in 1..Len(script) : script[i].type = SETTINGS)
    => /\ Len(got) = Len(script)
       /\ \A i \in 1..Len(script) : got[i] = settings_event(script[i])

\* C27 witness: the 14-byte SETTINGS payload has returned its two complete
\* entries, the unknown id among them, and the two trailing bytes are dropped
C27_Witness ==
    /\ OneFrameFed(SETTINGS)
    /\ vlen(script[1].payload) = 14
    /\ calls = CallsCap
    /\ got = <<Settings(FALSE, << <<3, 100>>, <<65281, 7>> >>)>>

\* the event that a built frame stands for
event_of_call(call) ==
    CASE call.builder = "create_rst_stream" ->
            StreamReset(call.stream_id, call.value)
      [] call.builder = "create_goaway" -> GoAway(call.stream_id, call.value)
      [] call.builder = "create_settings_ack" -> Settings(TRUE, <<>>)
      [] call.builder = "create_settings" -> Settings(FALSE, <<>>)
      [] call.builder = "create_settings_with_window" ->
            Settings(FALSE, << <<4, call.value>> >>)
      [] call.builder = "create_ping_ack" -> Ping(TRUE, call.data)
      [] call.builder = "create_window_update" ->
            WindowUpdate(call.stream_id, call.value)

\* the header that create_continuation_frame(s, p, e) is to parse as
continuation_header(call) ==
    [length     |-> vlen(call.data),
     frame_type |-> CONTINUATION,
     flags      |-> IF call.end_headers THEN END_HEADERS ELSE 0,
     stream_id  |-> call.stream_id]

\* the calls whose stream id and value are below 2^31
BelowReservedBit == {call \in BuilderCalls : call.stream_id >= 0 /\ call.value >= 0}

\* those of them whose payload fits the 24-bit length field of a frame
Framable == {call \in BelowReservedBit : vlen(call.data) < 16777216}

\* the round trip of one builder call: its output given to the codec yields
\* exactly the one event that matches the call and leaves the buffer empty;
\* the output of create_continuation_frame(s, p, e) parses as a CONTINUATION
\* header on s with payload p and END_HEADERS set exactly when e is true, and
\* behind a HEADERS frame that opened an assembly on s it completes the block
\* with p when e is true and extends it by p otherwise
RoundTrip(call) ==
    LET frame == BuiltFrames[call] IN
    IF call.builder # "create_continuation_frame"
    THEN (script = <<Built(frame)>> /\ vlen(wire) = 0)
         => /\ got = <<event_of_call(call)>>
            /\ vlen(buffer) = 0
    ELSE /\ (script # <<>> /\ script[Len(script)] = Built(frame))
            => /\ parse(frame) = Some(continuation_header(call))
               /\ drain(frame, 9) = call.data
         /\ (/\ Len(script) = 2
             /\ OpensAssembly(script[1])
             /\ script[1].stream_id = call.stream_id
             /\ script[2] = Built(frame)
             /\ vlen(wire) = 0)
            => LET block == extend(script[1].payload, call.data) IN
               /\ vlen(buffer) = 0
               /\ IF call.end_headers
                  THEN /\ got = <<Headers(call.stream_id, block, FALSE)>>
                       /\ pending_headers_stream = None
                  ELSE /\ got = <<>>
                       /\ pending_headers_stream = Some(call.stream_id)
                       /\ pending_header_block = block

C29_BuiltFramesWellFormed ==
    \A call \in BuilderCalls :
        (script # <<>> /\ script[Len(script)] = Built(BuiltFrames[call]))
        => LET frame == BuiltFrames[call] IN
           /\ vlen(frame) >= 9
           /\ at(frame, 5) < 128
           /\ at(frame, 0) * 65536 + at(frame, 1) * 256 + at(frame, 2) = vlen(frame) - 9

\* C30: a HEADERS frame without END_HEADERS that arrives while an assembly is
\* pending, on the same stream or on another, is accepted without error and
\* replaces the pending assembly: the pending stream, END_STREAM flag and
\* block are those of the new frame, and the CONTINUATION frame with
\* END_HEADERS that follows on the new stream returns a block made of the new
\* fragment and its own payload, with nothing of the earlier fragment.
C30_HeadersReplacePending ==
    (/\ script # <<>>
     /\ OpensAssembly(script[1])
     /\ snap.pending_headers_stream # None
     /\ FirstFrameFed)
    => LET f == script[1] IN
       /\ Len(script) = 1
          => /\ got = <<>>
             /\ pending_headers_stream = Some(f.stream_id)
             /\ pending_headers_end_stream = has_flag(f.flags, END_STREAM)
             /\ pending_header_block = f.payload
       /\ (/\ Len(script) = 2
           /\ Completes(script[2], f.stream_id)
           /\ vlen(wire) = 0)
          => /\ got = <<Headers(f.stream_id, extend(f.payload, script[2].payload),
                                has_flag(f.flags, END_STREAM))>>
             /\ pending_headers_stream = None

\* C30 witness: the fragment 0x82 0x86 was pending on stream 1; a HEADERS frame
\* for stream 3 with END_STREAM and the CONTINUATION frame that completes it
\* have returned Headers{3, [0x84, 0x8b], true}
C30_Witness ==
    /\ snap.pending_headers_stream = Some(1)
    /\ snap.pending_header_block = bytes(<<130, 134>>)
    /\ Len(script) = 2
    /\ script[1].type = HEADERS
    /\ script[1].stream_id = 3
    /\ script[2].type = CONTINUATION
    /\ vlen(wire) = 0
    /\ calls = CallsCap
    /\ got = <<Headers(3, bytes(<<132, 139>>), TRUE)>>

\* a codec with the assembly fields as new() gives them
idle(c) ==
    [c EXCEPT !.pending_headers_stream = None,
              !.pending_headers_end_stream = FALSE,
              !.pending_header_block = VecNew]

\* a frame that is neither CONTINUATION nor HEADERS without END_HEADERS
Bystander(f) ==
    /\ f # PrefaceItem
    /\ f.type # CONTINUATION
    /\ ~OpensAssembly(f)

\* the three assembly fields of a codec
pending_of(c) ==
    <<c.pending_headers_stream, c.pending_header_block, c.pending_headers_end_stream>>

\* such frames: those the interleaving peer sends, and one of each other type
Bystanders ==
    {g \in Repertoire("interleave") : Bystander(g)}
    \cup { Frame(PING, 0, 0, bytes(<<1, 2, 3, 4, 5, 6, 7, 8>>)),
           Frame(GOAWAY, 0, 0, bytes(<<0, 0, 0, 1, 0, 0, 0, 0>>)),
           Frame(PRIORITY, 0, 1, bytes(<<0, 0, 0, 3, 16>>)),
           Frame(PUSH_PROMISE, END_HEADERS, 1, bytes(<<0, 0, 0, 2, 130>>)),
           Frame(RST_STREAM, 0, 1, bytes(<<0, 0, 8>>)) }

\* with an assembly pending and nothing buffered, each such frame, and
\* remove_stream(), does to the codec what it does to the same codec with
\* nothing pending, returns the same, and leaves the assembly fields alone
BystandersUnaffected ==
    (pending_headers_stream # None /\ vlen(buffer) = 0)
    => /\ \A f \in Bystanders :
             LET with == process(self, frame_bytes(f))
                 without == process(idle(self), frame_bytes(f))
             IN  /\ with.result = without.result
                 /\ idle(with.codec) = without.codec
                 /\ pending_of(with.codec) = pending_of(self)
       /\ \A id \in StreamIds :
             /\ idle(remove_stream(self, id)) = remove_stream(idle(self), id)
             /\ pending_of(remove_stream(self, id)) = pending_of(self)

\* C31: while an assembly is pending, frames other than CONTINUATION and
\* HEADERS without END_HEADERS, and remove_stream(), are processed as when
\* nothing is pending: the same events and the same errors, the same stream
\* table; and they leave the pending stream, the accumulated bytes and the
\* captured END_STREAM flag as they were.
C31_PendingAssemblyUntouched ==
    /\ []BystandersUnaffected
    /\ [][(/\ script # <<>>
           /\ script' = script
           /\ snap.pending_headers_stream # None
           /\ \A i \in 1..Len(script) : Bystander(script[i]))
          => /\ pending_of(self') = pending_of(snap)
             /\ (calls = 0 /\ vlen(wire') = 0)
                => got' = Output(process(idle(snap), script_bytes(script)).result)]_vars

\* C31 witness: END_STREAM headers were pending on stream 1 with the fragment
\* 0x82; an RST_STREAM frame for stream 1 has returned its event, and the
\* assembly is still pending with the same fragment and flag
C31_Witness ==
    /\ snap.pending_headers_stream = Some(1)
    /\ Len(script) = 1
    /\ script[1].type = RST_STREAM
    /\ vlen(wire) = 0
    /\ got = <<StreamReset(1, 8)>>
    /\ pending_headers_stream = Some(1)
    /\ pending_header_block = bytes(<<130>>)
    /\ pending_headers_end_stream
    /\ 1 \notin DOMAIN streams

\* the step is a process() call that returned an error
ErrorReturned ==
    /\ script' = script
    /\ sent' = sent
    /\ Len(got') = Len(got) + 1
    /\ ~IsEvent(got'[Len(got')])

\* what a call returns that dispatches the frames of a sequence in order: the
\* error of the first frame that fails, or the events of all of them
RECURSIVE in_order(_, _, _)
in_order(c, items, events) ==
    IF items = <<>> THEN events
    ELSE LET r == process(c, item_bytes(items[1])) IN
         IF ~r.result.ok THEN <<ErrorEntry(r.result)>>
         ELSE in_order(r.codec, Tail(items), events \o r.result.events)

\* the frame types whose arm of parse_frame returns the error
raised_by(e) ==
    CASE e.msg = "RST_STREAM frame too short" -> {RST_STREAM}
      [] e.msg = "Unexpected CONTINUATION frame for stream {}" -> {CONTINUATION}
      [] e.msg = "CONTINUATION for stream {} but pending headers on stream {}"
            -> {CONTINUATION}
      [] e.msg = "Header block too large ({} bytes, max {})" -> {HEADERS, CONTINUATION}
      [] e.msg = "GOAWAY frame too short" -> {GOAWAY}
      [] e.msg = "WINDOW_UPDATE frame too short" -> {WINDOW_UPDATE}
      [] e.msg = "PING frame too short" -> {PING}
      [] OTHER -> {DATA, HEADERS}

\* the number of bytes of the window handed over so far
fed_len == items_len(script) - vlen(wire)

\* the frames of the window that are complete in the buffer, as the interval
\* of their positions: those behind the frames that are gone from the buffer
\* whose last byte has been handed over
buffered_frames ==
    LET gone == fed_len - vlen(buffer)
        j == CHOOSE i \in 0..Len(script) : items_len(SubSeq(script, 1, i)) = gone
        whole == {i \in j..Len(script) : items_len(SubSeq(script, 1, i)) <= fed_len}
    IN  <<j + 1, CHOOSE i \in whole : \A k \in whole : k <= i>>

\* complete frames wait in the buffer only behind a frame that failed: the
\* last call returned an error, and the next call, given no input, returns
\* what those frames return when they are dispatched in order
FramesBehindErrorWait ==
    ~LessThanOneFrame(buffer)
    => /\ got # <<>>
       /\ ~IsEvent(got[Len(got)])
       /\ LET next == process(self, VecNew) IN
           /\ Output(next.result)
                = in_order([self EXCEPT !.buffer = VecNew],
                           SubSeq(script, buffered_frames[1], buffered_frames[2]), <<>>)
           /\ vlen(next.codec.buffer) < vlen(buffer)

\* C32: when a process() call returns an error, the frame that failed and all
\* frames before it are gone from the buffer, and the bytes handed over behind
\* the failing frame are buffered; the next call, given no input, returns what
\* the complete frames among them return when they are dispatched in order.
C32_FramesBehindErrorKept ==
    /\ [][ErrorReturned
          => LET all == script_bytes(script)
                 fed == truncate(all, vlen(all) - vlen(wire'))
                 gone == vlen(fed) - vlen(buffer')
             IN  /\ buffer' = drain(fed, gone)
                 /\ \E j \in 1..Len(script) :
                       /\ items_len(SubSeq(script, 1, j)) = gone
                       /\ script[j].type \in raised_by(got'[Len(got')])]_vars
    /\ []FramesBehindErrorWait

\* C32 witness: one call was given an RST_STREAM frame that is too short, a
\* HEADERS frame without END_HEADERS and the CONTINUATION frame that completes
\* it; it returned the error, and the next call, given nothing, returned the
\* Headers event and emptied the buffer
C32_Witness ==
    /\ Len(script) = 3
    /\ script[1].type = RST_STREAM
    /\ script[2].type = HEADERS
    /\ script[3].type = CONTINUATION
    /\ snap.pending_headers_stream = None
    /\ vlen(wire) = 0
    /\ calls = 2
    /\ got = <<ErrorEntry(Err("RST_STREAM frame too short", <<>>)),
               Headers(1, bytes(<<130, 134>>), FALSE)>>
    /\ vlen(buffer) = 0

\* the error that answers a CONTINUATION frame on another stream than the
\* pending one
mismatch(f, pending_stream) ==
    ErrorEntry(Err("CONTINUATION for stream {} but pending headers on stream {}",
                   <<f.stream_id, pending_stream>>))

\* C33: a CONTINUATION frame that is refused because its stream is not the
\* pending one leaves the pending stream, the accumulated block and the
\* captured END_STREAM flag as they were; the CONTINUATION frame with
\* END_HEADERS that follows on the pending stream returns the Headers event
\* with the block accumulated before the refused frame followed by its own
\* payload.
C33_RejectedContinuationKeepsAssembly ==
    (/\ script # <<>>
     /\ script[1].type = CONTINUATION
     /\ snap.pending_headers_stream # None
     /\ snap.pending_headers_stream # Some(script[1].stream_id)
     /\ vlen(wire) = 0
     /\ vlen(buffer) = 0)
    => LET s == snap.pending_headers_stream[1] IN
       /\ Len(script) = 1
          => /\ got = <<mismatch(script[1], s)>>
             /\ pending_of(self) = pending_of(snap)
       /\ (Len(script) = 2 /\ Completes(script[2], s))
          => /\ got = <<mismatch(script[1], s),
                        Headers(s, extend(snap.pending_header_block, script[2].payload),
                                snap.pending_headers_end_stream)>>
             /\ pending_of(self) = pending_of(new)

\* C33 witness: END_STREAM headers were pending on stream 3 with the fragment
\* 0x84; the CONTINUATION frame for stream 1 has been refused, and the
\* CONTINUATION frame for stream 3 behind it has returned
\* Headers{3, [0x84, 0x8b], true}
C33_Witness ==
    /\ snap.pending_headers_stream = Some(3)
    /\ snap.pending_headers_end_stream
    /\ Len(script) = 2
    /\ script[1].type = CONTINUATION
    /\ script[1].stream_id = 1
    /\ script[2].type = CONTINUATION
    /\ script[2].stream_id = 3
    /\ vlen(wire) = 0
    /\ vlen(buffer) = 0
    /\ got = <<mismatch(script[1], 3), Headers(3, bytes(<<132, 139>>), TRUE)>>

\* C34: when a process() call returns a Headers or Data event with
\* end_stream = true for stream s, the stream table holds an entry for s with
\* stream_ended = true afterwards; and when it returns a Headers event for s,
\* that entry has headers_complete = true.  (The peer sends no RST_STREAM
\* frame, so no frame behind the emitting one removes the entry.)
C34_EventFlagsRecorded ==
    [][\A e \in NewEvents :
          /\ (e.type \in {"Headers", "Data"} /\ e.end_stream)
             => /\ e.stream_id \in DOMAIN streams'
                /\ streams'[e.stream_id].stream_ended
          /\ e.type = "Headers"
             => /\ e.stream_id \in DOMAIN streams'
                /\ streams'[e.stream_id].headers_complete]_vars

\* the step is a process() call that dispatched one frame of the window and
\* no more: the bytes that left the buffer are those of one frame
DispatchedOneFrame ==
    /\ script' = script
    /\ sent' = sent
    /\ \E j \in 1..Len(script) :
          /\ items_len(SubSeq(script, 1, j - 1)) = fed_len - vlen(buffer)
          /\ items_len(SubSeq(script, 1, j))
               = items_len(script) - vlen(wire') - vlen(buffer')

\* C35: when a process() call returns an error, the stream table is what it
\* was before the failing frame was dispatched: a frame that is refused
\* creates, changes and removes no entry.
C35_RejectedFrameKeepsStreams ==
    [][(ErrorReturned /\ DispatchedOneFrame) => streams' = streams]_vars

\* everything the peer has sent since the codec was created is in the window,
\* so the bytes of the window are all the bytes the codec has been given
FirstWindow == script # <<>> /\ sent = Len(script)

\* C36: a process() call removes a connection preface only if it is the first
\* 24 bytes handed over since creation (or the last reset()): the call in
\* which the preface flag becomes set finds the preface as the first item,
\* and no byte has left the buffer before it.
C36_PrefaceOnlyFirst ==
    [][(/\ FirstWindow
        /\ script' = script
        /\ ~preface_received
        /\ preface_received')
       => /\ script[1] = PrefaceItem
          /\ fed_len - vlen(buffer) = 0]_vars

\* C37: the flags of a tracked stream only go from false to true.  In every
\* step, a stream that has an entry before and after keeps each flag that was
\* true, unless the step is a process() call that dispatched an RST_STREAM
\* frame for the stream (which removes the entry; a later frame of the call
\* may create a new one).
C37_StreamFlagsMonotonic ==
    [][\A id \in DOMAIN streams \cap DOMAIN streams' :
          \/ /\ streams[id].headers_complete => streams'[id].headers_complete
             /\ streams[id].stream_ended => streams'[id].stream_ended
          \/ \E e \in NewEvents : e.type = "StreamReset" /\ e.stream_id = id]_vars

\* C37 witness: stream 1 had both flags true; a HEADERS frame for stream 1
\* with neither END_HEADERS nor END_STREAM has been dispatched and opened an
\* assembly, and the entry still has both flags true
C37_Witness ==
    /\ 1 \in DOMAIN snap.streams
    /\ snap.streams[1] = [headers_complete |-> TRUE, stream_ended |-> TRUE]
    /\ snap.pending_headers_stream = None
    /\ Len(script) = 1
    /\ script[1].type = HEADERS
    /\ script[1].flags = 0
    /\ vlen(wire) = 0
    /\ pending_headers_stream = Some(1)
    /\ streams[1] = [headers_complete |-> TRUE, stream_ended |-> TRUE]

\* a process() call that is given the next k bytes in flight: every iteration
\* of its frame loop that dispatches a frame takes at least 9 bytes out of the
\* buffer, the frames it dispatches are at most a ninth of the bytes it
\* started with, and it returns with the buffer the last iteration left
LoopBounded(k) ==
    LET data == truncate(wire, k)
        start == check_preface([self EXCEPT !.buffer = extend(buffer, data)])
    IN  \A lens \in {buffer_lens(start)} :
            LET n == Len(lens) - 1 IN
            /\ \A i \in 1..n : lens[i] - lens[i + 1] >= 9
            /\ n <= (vlen(buffer) + k) \div 9
            /\ lens[n + 1] >= 0
            /\ vlen(process(self, data).codec.buffer) = lens[n + 1]

\* C38: every process() call terminates: each iteration of the frame loop
\* that does not leave it removes at least 9 bytes from a finite buffer, so a
\* call dispatches at most floor(buffer length / 9) frames before it returns
\* Ok or an error.
C38_FrameLoopTerminates == \A k \in Reads : LoopBounded(k)

\* C38 witness: one call was given three 9-byte frames (SETTINGS ACK, a frame
\* of type 255, SETTINGS ACK); it dispatched all three, which is 27 / 9, and
\* returned the two Settings events
C38_Witness ==
    /\ OneCall
    /\ Len(script) = 3
    /\ script[1].type = SETTINGS
    /\ script[2].type = 255
    /\ script[3].type = SETTINGS
    /\ got = <<Settings(TRUE, <<>>), Settings(TRUE, <<>>)>>
    /\ vlen(buffer) = 0
    /\ Len(buffer_lens([snap EXCEPT !.buffer = script_bytes(script)])) = 4

\* C39: when no assembly is pending, the accumulated header block is empty
\* and the captured END_STREAM flag is false.
C39_PendingFieldsIdle ==
    pending_headers_stream = None
    => /\ vlen(pending_header_block) = 0
       /\ ~pending_headers_end_stream

====
